---- MODULE Spec2Model ----
(***************************************************************************)
(* A model of the security-analysis pipeline of daily-dev-mcp:             *)
(*   SecurityFileFilter (classify / select), AnalysisChunker (grouping),   *)
(*   ChunkProcessor (per-chunk heuristics), StreamingAnalyzer (sequential  *)
(*   orchestration and aggregation) and the exported functions of          *)
(*   githubSecurityClient (collection, reasoning-engine calls).            *)
(*                                                                         *)
(* Strings are TLA+ strings; JavaScript's String.includes, startsWith,     *)
(* split('/').pop() and toLowerCase are computed character by character.   *)
(* Math.round(a / b * 100) is computed on the exact quotient, which agrees *)
(* with IEEE doubles for the small operands the bounds allow.              *)
(***************************************************************************)
EXTENDS Integers, Sequences, FiniteSets, TLC

VARIABLES
    \* ---- StreamingAnalyzer.processChunks (one run) ----
    chunks,         \* the argument of processChunks
    options,        \* the options object handed to the constructor
    pc,             \* position of the run inside processChunks
    i,              \* 0-based loop index (the code's i)
    chunkResults,   \* local chunkResults
    totalFindings,  \* local totalFindings
    failedChunks,   \* local failedChunks
    lastResult,     \* the result the current iteration holds (const result)
    caught,         \* the error the catch clause is handling
    resultOrigin,   \* for each entry of chunkResults, the loop index that pushed it
    events,         \* callback invocations so far, in order
    verdict,        \* what processChunks resolved with (or NoVerdict)
    \* ---- SecurityFileFilter (one call) ----
    filePaths,      \* the path list handed to filterFiles
    filterOptions,  \* the FileFilterOptions handed to it
    fpc,            \* position of the filter scenario
    classified,     \* result of the last isSecurityRelevant call
    selected,       \* result of the last filterFiles call
    \* ---- AnalysisChunker.chunkByType (one call) ----
    chunkerFiles,   \* the argument securityFiles of chunkByType
    cpc,            \* position of the call inside chunkByType
    filesByType,    \* the Map, as its entries in insertion order
    typeIndex,      \* number of Map entries the second loop has visited
    chunkerChunks,  \* local chunks of chunkByType
    \* ---- githubSecurityClient (one call of an exported function) ----
    entry,          \* the exported function that was called
    analysisArg,    \* its analysisType argument
    apc,            \* position of the call inside the function
    connection,     \* this.client / this.transport of the GitHubSecurityClient
    githubData,     \* results of collectTargetedSecurityData / the githubData argument
    aiIndex,        \* loop index of the per-chunk reasoning loop
    chunkAIResults, \* local chunkAIResults
    engineReplies,  \* what the reasoning engine answered, call by call
    output          \* what the function resolved with (or NoOutput)

streamVars == <<chunks, options, pc, i, chunkResults, totalFindings,
                failedChunks, lastResult, caught, resultOrigin, events, verdict>>
filterVars == <<filePaths, filterOptions, fpc, classified, selected>>
chunkerVars == <<chunkerFiles, cpc, filesByType, typeIndex, chunkerChunks>>
clientVars == <<entry, analysisArg, apc, connection, githubData, aiIndex,
                chunkAIResults, engineReplies, output>>
vars == <<streamVars, filterVars, chunkerVars, clientVars>>

(***************************************************************************)
(* Bounds of the model.                                                    *)
(***************************************************************************)
MaxChunks == 2
MaxPaths == 2

(***************************************************************************)
(* JavaScript string primitives.                                           *)
(***************************************************************************)
\* s.includes(p)
Includes(s, p) ==
    \E k \in 1..(Len(s) - Len(p) + 1) : SubSeq(s, k, k + Len(p) - 1) = p

\* s.startsWith(p)
StartsWith(s, p) ==
    /\ Len(p) <= Len(s)
    /\ SubSeq(s, 1, Len(p)) = p

UpperCase == <<"A","B","C","D","E","F","G","H","I","J","K","L","M",
               "N","O","P","Q","R","S","T","U","V","W","X","Y","Z">>
LowerCase == <<"a","b","c","d","e","f","g","h","i","j","k","l","m",
               "n","o","p","q","r","s","t","u","v","w","x","y","z">>

LowerChar(c) ==
    IF \E k \in 1..26 : UpperCase[k] = c
    THEN LowerCase[CHOOSE k \in 1..26 : UpperCase[k] = c]
    ELSE c

RECURSIVE LowerFrom(_, _)
\* the characters of s from position k on, in lower case
LowerFrom(s, k) ==
    IF k > Len(s) THEN ""
    ELSE LowerChar(SubSeq(s, k, k)) \o LowerFrom(s, k + 1)

\* s.toLowerCase()
ToLowerCase(s) == LowerFrom(s, 1)

\* position of the last occurrence of the one-character string c in s, or 0
LastIndexOf(s, c) ==
    LET hits == {k \in 1..Len(s) : SubSeq(s, k, k) = c}
    IN  IF hits = {} THEN 0 ELSE CHOOSE k \in hits : \A h \in hits : h <= k

\* s.split(sep).pop() for a one-character separator
LastSegment(s, sep) == SubSeq(s, LastIndexOf(s, sep) + 1, Len(s))

\* Math.round(num / den * 100) for num >= 0, den > 0 (round half up)
RoundPercent(num, den) == (200 * num + den) \div (2 * den)

(***************************************************************************)
(* SecurityFileFilter                                                      *)
(***************************************************************************)
Categories == {"secret", "dependency", "security", "deployment", "config"}

\* The paths of the test-suite's scenario, and paths that meet the rules of
\* several categories or the exclusions of vendored and build directories.
SamplePaths ==
    { ".env", "secrets.json", "package.json", "config.json", "README.md",
      "auth.config", "auth/package.json", "node_modules/auth/Pipfile",
      "Dockerfile", "dist/security.js", "build/app.yml", "config/.env.local" }

\* mutant: the dependency patterns are declared before the secret patterns
CategoryOrderDependencyFirst == <<"dependency", "secret", "security", "deployment", "config">>

\* Object.entries(SECURITY_PATTERNS): the categories in their declared order
CategoryOrder == <<"secret", "dependency", "security", "deployment", "config">>

SECURITY_PATTERNS(category) ==
    CASE category = "secret" ->
            <<".env", ".env.local", ".env.production", ".env.staging",
              "secrets.json", "credentials.json", "keys.json",
              "secret", "key", "token", "credential", "password", "auth">>
      [] category = "dependency" ->
            <<"package.json", "package-lock.json", "yarn.lock", "pnpm-lock.yaml",
              "requirements.txt", "Pipfile", "poetry.lock", "pom.xml", "build.gradle",
              "Gemfile", "Gemfile.lock", "composer.json", "composer.lock",
              "Cargo.toml", "Cargo.lock", "go.mod", "go.sum">>
      [] category = "security" ->
            <<"security", "auth", "authentication", "authorization", "permission",
              "firewall", "cors", "csp", "security.json", "auth.json">>
      [] category = "deployment" ->
            <<"dockerfile", "docker-compose", "kubernetes", "k8s", "helm",
              "terraform", "ansible", "deployment", "infrastructure",
              ".dockerignore", "docker-compose.yml", "docker-compose.yaml">>
      [] category = "config" ->
            <<"config", "settings", "properties", "ini", "yaml", "yml",
              "xml", "conf", "cfg">>

\* normalizedPath.split('/').pop() || ''
FileNameOf(normalizedPath) == LastSegment(normalizedPath, "/")

\* fileName.includes('.') ? fileName.split('.').pop() : ''
FileExtensionOf(fileName) ==
    IF Includes(fileName, ".") THEN LastSegment(fileName, ".") ELSE ""

\* the callback handed to patterns.some(...), lines 59-97
PatternMatches(category, pattern, normalizedPath, fileName, fileExtension) ==
    LET normalizedPattern == ToLowerCase(pattern)
    IN  IF fileName = normalizedPattern THEN TRUE
        ELSE IF category = "dependency" THEN fileName = normalizedPattern
        ELSE IF /\ category = "secret"
                /\ \/ StartsWith(normalizedPattern, ".") /\ StartsWith(fileName, normalizedPattern)
                   \/ /\ Includes(normalizedPath, normalizedPattern)
                      /\ ~Includes(normalizedPath, "node_modules")
             THEN TRUE
        ELSE IF Includes(normalizedPath, normalizedPattern)
             THEN /\ ~Includes(normalizedPath, "node_modules")
                  /\ ~Includes(normalizedPath, "dist/")
                  /\ ~Includes(normalizedPath, "build/")
        ELSE IF /\ category = "config"
                /\ fileExtension # ""
                /\ fileExtension \in {"yaml", "yml", "xml", "ini", "conf"}
             THEN IF fileExtension = "toml" /\ fileName # "config.toml" THEN FALSE
                  ELSE IF fileExtension = "json" /\ fileName # "config.json" THEN FALSE
                  ELSE TRUE
        ELSE FALSE

\* isMatch for one category: patterns.some(...)
CategoryMatches(category, filePath) ==
    LET normalizedPath == ToLowerCase(filePath)
        fileName       == FileNameOf(normalizedPath)
        fileExtension  == FileExtensionOf(fileName)
        patterns       == SECURITY_PATTERNS(category)
    IN  \E k \in 1..Len(patterns) :
           PatternMatches(category, patterns[k], normalizedPath, fileName, fileExtension)

\* CategoryMatches over the sample paths, evaluated once
IsMatchTable == [c \in Categories |-> [p \in SamplePaths |-> CategoryMatches(c, p)]]

\* isMatch, looked up
IsMatch(category, filePath) == IsMatchTable[category][filePath]

\* mutant: every dependency file gets high priority, below the root too
getPriorityDependencyAlwaysHigh(category, filePath) ==
    IF category = "secret" THEN "high"
    ELSE IF category = "dependency" THEN "high"
    ELSE IF category = "config" /\ Includes(filePath, ".env") THEN "high"
    ELSE IF category = "security" THEN "medium"
    ELSE IF category = "deployment" THEN "medium"
    ELSE "low"

\* mutant: the 'security' case is missing and falls to the default
shouldIncludeCategoryNoSecurityCase(category, opts) ==
    CASE category = "config"     -> opts.includeConfigFiles # "false"
      [] category = "dependency" -> opts.includeDependencyFiles # "false"
      [] category = "secret"     -> opts.includeSecretFiles # "false"
      [] category = "deployment" -> opts.includeDeploymentFiles # "false"
      [] OTHER                   -> TRUE

\* options.includeXFiles !== false
shouldIncludeCategory(category, opts) ==
    CASE category = "config"     -> opts.includeConfigFiles # "false"
      [] category = "dependency" -> opts.includeDependencyFiles # "false"
      [] category = "secret"     -> opts.includeSecretFiles # "false"
      [] category = "security"   -> opts.includeSecurityFiles # "false"
      [] category = "deployment" -> opts.includeDeploymentFiles # "false"
      [] OTHER                   -> TRUE

getPriority(category, filePath) ==
    IF category = "secret" THEN "high"
    ELSE IF category = "dependency" /\ ~Includes(filePath, "/") THEN "high"
    ELSE IF category = "config" /\ Includes(filePath, ".env") THEN "high"
    ELSE IF category = "security" THEN "medium"
    ELSE IF category = "deployment" THEN "medium"
    ELSE "low"

getPriorityScore(priority) ==
    CASE priority = "high"   -> 3
      [] priority = "medium" -> 2
      [] priority = "low"    -> 1
      [] OTHER               -> 0

\* patterns.find(p => normalizedPath.includes(p.toLowerCase())) || 'exact match'
MatchedPattern(category, normalizedPath) ==
    LET patterns == SECURITY_PATTERNS(category)
        hits == {k \in 1..Len(patterns) : Includes(normalizedPath, ToLowerCase(patterns[k]))}
    IN  IF hits = {} THEN "exact match"
        ELSE patterns[CHOOSE k \in hits : \A h \in hits : k <= h]

\* the value null of SecurityFile | null
NullFile == [path |-> "", type |-> "null", priority |-> "none", reason |-> ""]

\* the SecurityFile built at lines 100-105 when the category matches
MatchedFile(category, filePath) ==
    [path     |-> filePath,
     type     |-> category,
     priority |-> getPriority(category, ToLowerCase(filePath)),
     reason   |-> "Matched " \o category \o " pattern: "
                  \o MatchedPattern(category, ToLowerCase(filePath))]

\* MatchedFile over the sample paths, evaluated once
MatchedFileTable == [c \in Categories |-> [p \in SamplePaths |-> MatchedFile(c, p)]]

RECURSIVE ClassifyFrom(_, _, _)
\* the for-loop of isSecurityRelevant from the c-th category on
ClassifyFrom(c, filePath, opts) ==
    IF c > Len(CategoryOrder) THEN NullFile
    ELSE LET category == CategoryOrder[c]
         IN  IF ~shouldIncludeCategory(category, opts)
             THEN ClassifyFrom(c + 1, filePath, opts)
             ELSE IF IsMatch(category, filePath)
             THEN MatchedFileTable[category][filePath]
             ELSE ClassifyFrom(c + 1, filePath, opts)

isSecurityRelevant(filePath, opts) == ClassifyFrom(1, filePath, opts)

\* the comparator handed to sort: negative when a sorts before b
CompareFiles(a, b) ==
    LET priorityDiff == getPriorityScore(b.priority) - getPriorityScore(a.priority)
        typeOrder == [secret |-> 5, dependency |-> 4, security |-> 3, deployment |-> 2, config |-> 1]
    IN  IF priorityDiff # 0 THEN priorityDiff
        ELSE typeOrder[b.type] - typeOrder[a.type]

\* mutant: x goes before the elements it ties with (an unstable sort)
InsertSortedBeforeTies(sorted, x) ==
    LET keep == {k \in 1..Len(sorted) : CompareFiles(sorted[k], x) < 0}
        n    == Cardinality(keep)
    IN  SubSeq(sorted, 1, n) \o <<x>> \o SubSeq(sorted, n + 1, Len(sorted))

\* x inserted into the sorted list after every element that does not sort after it
InsertSorted(sorted, x) ==
    LET keep == {k \in 1..Len(sorted) : CompareFiles(sorted[k], x) <= 0}
        n    == Cardinality(keep)
    IN  SubSeq(sorted, 1, n) \o <<x>> \o SubSeq(sorted, n + 1, Len(sorted))

\* mutant: the files are left in input order
StableSortKeepsInputOrder(files, n) == SubSeq(files, 1, n)

RECURSIVE StableSort(_, _)
\* Array.prototype.sort (stable): the first n elements of files, sorted
StableSort(files, n) ==
    IF n = 0 THEN <<>> ELSE InsertSorted(StableSort(files, n - 1), files[n])

RECURSIVE ClassifyAll(_, _, _)
\* filePaths.map(isSecurityRelevant).filter(file => file !== null), first n paths
ClassifyAll(paths, n, opts) ==
    IF n = 0 THEN <<>>
    ELSE LET file == isSecurityRelevant(paths[n], opts)
         IN  ClassifyAll(paths, n - 1, opts) \o (IF file = NullFile THEN <<>> ELSE <<file>>)

filterFiles(paths, opts) ==
    LET found == ClassifyAll(paths, Len(paths), opts)
        securityFiles == StableSort(found, Len(found))
    IN  IF /\ opts.maxFiles.defined
           /\ opts.maxFiles.value # 0
           /\ Len(securityFiles) > opts.maxFiles.value
        THEN SubSeq(securityFiles, 1, opts.maxFiles.value)
        ELSE securityFiles

\* FileFilterOptions: each include flag is "unset", "true" or "false"
FilterOptionsOf(config, dependency, secret, security, deployment, maxFiles) ==
    [includeConfigFiles     |-> config,
     includeDependencyFiles |-> dependency,
     includeSecretFiles     |-> secret,
     includeSecurityFiles   |-> security,
     includeDeploymentFiles |-> deployment,
     maxFiles               |-> maxFiles]

NoLimit == [defined |-> FALSE, value |-> 0]
Limit(n) == [defined |-> TRUE, value |-> n]

\* the options argument left out: options = {}
DefaultFilterOptions == FilterOptionsOf("unset", "unset", "unset", "unset", "unset", NoLimit)

getAnalysisFilters(analysisType) ==
    CASE analysisType = "secrets" ->
            FilterOptionsOf("true", "unset", "true", "unset", "unset", Limit(20))
      [] analysisType = "vulnerabilities" ->
            FilterOptionsOf("unset", "true", "unset", "true", "unset", Limit(15))
      [] analysisType = "dependencies" ->
            FilterOptionsOf("unset", "true", "unset", "unset", "unset", Limit(10))
      [] analysisType = "code-patterns" ->
            FilterOptionsOf("true", "unset", "unset", "true", "unset", Limit(25))
      [] OTHER ->
            FilterOptionsOf("true", "true", "true", "true", "true", Limit(30))

(***************************************************************************)
(* JavaScript numbers that may be NaN: Math.round(a / b * 100).            *)
(***************************************************************************)
JsRoundPercent(a, b) ==
    IF b = 0
    THEN IF a = 0 THEN [kind |-> "NaN", value |-> 0]
                  ELSE [kind |-> "Infinity", value |-> 0]
    ELSE [kind |-> "number", value |-> RoundPercent(a, b)]

(***************************************************************************)
(* ChunkProcessor                                                          *)
(***************************************************************************)
ChunkFinding(type, severity, title, path, recommendation) ==
    [type |-> type, severity |-> severity, title |-> title,
     filePath |-> path, recommendation |-> recommendation]

RECURSIVE analyzeSecretFilesReverseOrder(_)
\* mutant: the files are visited last to first
analyzeSecretFilesReverseOrder(files) ==
    IF files = <<>> THEN <<>>
    ELSE LET file == Head(files)
             env == IF Includes(file.path, ".env")
                    THEN <<ChunkFinding("secret", "high", "Environment file detected", file.path,
                             "Add .env files to .gitignore and use environment variables for secrets.")>>
                    ELSE <<>>
             sec == IF Includes(file.path, "secrets.json") \/ Includes(file.path, "credentials.json")
                    THEN <<ChunkFinding("secret", "critical", "Secrets file detected", file.path,
                             "Use a secrets management service instead of storing secrets in files.")>>
                    ELSE <<>>
         IN  analyzeSecretFilesReverseOrder(Tail(files)) \o env \o sec

RECURSIVE analyzeSecretFiles(_)
analyzeSecretFiles(files) ==
    IF files = <<>> THEN <<>>
    ELSE LET file == Head(files)
             env == IF Includes(file.path, ".env")
                    THEN <<ChunkFinding("secret", "high", "Environment file detected", file.path,
                             "Add .env files to .gitignore and use environment variables for secrets.")>>
                    ELSE <<>>
             sec == IF Includes(file.path, "secrets.json") \/ Includes(file.path, "credentials.json")
                    THEN <<ChunkFinding("secret", "critical", "Secrets file detected", file.path,
                             "Use a secrets management service instead of storing secrets in files.")>>
                    ELSE <<>>
         IN  env \o sec \o analyzeSecretFiles(Tail(files))

RECURSIVE analyzeDependencyFiles(_)
analyzeDependencyFiles(files) ==
    IF files = <<>> THEN <<>>
    ELSE LET file == Head(files)
             npm == IF Includes(file.path, "package.json")
                    THEN <<ChunkFinding("dependency", "medium", "Dependency file detected", file.path,
                             "Run npm audit regularly and keep dependencies updated.")>>
                    ELSE <<>>
             py  == IF Includes(file.path, "requirements.txt")
                    THEN <<ChunkFinding("dependency", "medium", "Python dependencies detected", file.path,
                             "Use tools like safety to check for known vulnerabilities.")>>
                    ELSE <<>>
         IN  npm \o py \o analyzeDependencyFiles(Tail(files))

RECURSIVE analyzeConfigFiles(_)
analyzeConfigFiles(files) ==
    IF files = <<>> THEN <<>>
    ELSE <<ChunkFinding("configuration", "low", "Configuration file detected", Head(files).path,
             "Ensure configuration files have appropriate security settings.")>>
         \o analyzeConfigFiles(Tail(files))

RECURSIVE analyzeSecurityFiles(_)
analyzeSecurityFiles(files) ==
    IF files = <<>> THEN <<>>
    ELSE <<ChunkFinding("security", "medium", "Security file detected", Head(files).path,
             "Ensure security configurations follow best practices.")>>
         \o analyzeSecurityFiles(Tail(files))

RECURSIVE analyzeDeploymentFiles(_)
analyzeDeploymentFiles(files) ==
    IF files = <<>> THEN <<>>
    ELSE LET file == Head(files)
             lower == ToLowerCase(file.path)
             dock == IF Includes(lower, "dockerfile")
                     THEN <<ChunkFinding("security", "medium", "Dockerfile detected", file.path,
                              "Use multi-stage builds, run as non-root user, and scan for vulnerabilities.")>>
                     ELSE <<>>
             comp == IF Includes(lower, "docker-compose")
                     THEN <<ChunkFinding("security", "low", "Docker Compose file detected", file.path,
                              "Ensure containers don't run as root and use secure base images.")>>
                     ELSE <<>>
         IN  dock \o comp \o analyzeDeploymentFiles(Tail(files))

analyzeChunkByType(chunk) ==
    CASE chunk.type = "secret"     -> analyzeSecretFiles(chunk.files)
      [] chunk.type = "dependency" -> analyzeDependencyFiles(chunk.files)
      [] chunk.type = "config"     -> analyzeConfigFiles(chunk.files)
      [] chunk.type = "security"   -> analyzeSecurityFiles(chunk.files)
      [] chunk.type = "deployment" -> analyzeDeploymentFiles(chunk.files)
      [] OTHER                     -> <<>>

\* findings.filter(f => f.severity === sev).length
CountSeverity(findings, sev) ==
    Cardinality({k \in 1..Len(findings) : findings[k].severity = sev})

\* the worst-severity-wins rule of ChunkProcessor.generateSummary
\* RiskOf with the high test placed before the critical test
RiskOfHighFirst(critical, high, medium, low) ==
    IF high > 0 THEN "high"
    ELSE IF critical > 0 THEN "critical"
    ELSE IF medium > 0 THEN "medium"
    ELSE IF low > 0 THEN "low"
    ELSE "safe"

RiskOf(critical, high, medium, low) ==
    IF critical > 0 THEN "critical"
    ELSE IF high > 0 THEN "high"
    ELSE IF medium > 0 THEN "medium"
    ELSE IF low > 0 THEN "low"
    ELSE "safe"

ChunkGenerateSummary(findings) ==
    LET criticalFindings == CountSeverity(findings, "critical")
        highFindings     == CountSeverity(findings, "high")
        mediumFindings   == CountSeverity(findings, "medium")
        lowFindings      == CountSeverity(findings, "low")
        infoFindings     == CountSeverity(findings, "info")
    IN  [totalFindings    |-> Len(findings),
         criticalFindings |-> criticalFindings,
         highFindings     |-> highFindings,
         mediumFindings   |-> mediumFindings,
         lowFindings      |-> lowFindings,
         infoFindings     |-> infoFindings,
         overallRisk      |-> RiskOf(criticalFindings, highFindings, mediumFindings, lowFindings)]

estimateTokensUsed(chunk, findings) ==
    chunk.estimatedTokens + Len(findings) * 50 + 100

NoResult == [chunkId |-> "none", chunkType |-> "none", findings |-> <<>>,
             summary |-> ChunkGenerateSummary(<<>>), tokensUsed |-> 0]

\* Stands for the JavaScript value undefined in the path property of a file
\* object; no path string of the model equals it.
UndefinedPath == "<undefined>"

\* The secret, dependency and deployment heuristics call file.path.includes or
\* file.path.toLowerCase on every file: a TypeError when the path is undefined.
\* The config and security heuristics only interpolate the path.
AnalysisRaises(chunk) ==
    /\ chunk.type \in {"secret", "dependency", "deployment"}
    /\ \E f \in 1..Len(chunk.files) : chunk.files[f].path = UndefinedPath

\* ChunkProcessor.processChunk(chunk): a rejected promise (threw) or the ChunkResult.  A chunk
\* whose files property is missing makes `chunk.files.length` raise a TypeError;
\* nothing in processChunk or analyzeChunkByType catches an error of a heuristic.
\* The wall-clock field processingTime is left out.
ProcessorRun(chunk) ==
    IF ~chunk.filesDefined \/ AnalysisRaises(chunk)
    THEN [threw |-> TRUE, result |-> NoResult]
    ELSE LET findings == analyzeChunkByType(chunk)
         IN  [threw  |-> FALSE,
              result |-> [chunkId    |-> chunk.id,
                          chunkType  |-> chunk.type,
                          findings   |-> findings,
                          summary    |-> ChunkGenerateSummary(findings),
                          tokensUsed |-> estimateTokensUsed(chunk, findings)]]

(***************************************************************************)
(* Inputs of a StreamingAnalyzer run.                                      *)
(***************************************************************************)
SecurityFileOf(path, type, priority, reason) ==
    [path |-> path, type |-> type, priority |-> priority, reason |-> reason]

AnalysisChunkOf(id, type, files, priority, estimatedTokens) ==
    [id |-> id, type |-> type, files |-> files, filesDefined |-> TRUE,
     priority |-> priority, estimatedTokens |-> estimatedTokens]

\* The chunks the test-suite feeds to processChunks, a deployment chunk that
\* yields no finding, a chunk object whose files property is missing, and a
\* secret chunk one of whose two files has no path.
SampleChunks ==
    { AnalysisChunkOf("chunk-env", "secret",
          <<SecurityFileOf(".env", "secret", "high", "Environment file")>>, "high", 200),
      AnalysisChunkOf("chunk-secrets", "secret",
          <<SecurityFileOf("secrets.json", "secret", "high", "Secrets file")>>, "high", 200),
      AnalysisChunkOf("chunk-secret-pair", "secret",
          <<SecurityFileOf("secrets.json", "secret", "high", "Secrets file"),
            SecurityFileOf(".env", "secret", "high", "Environment file")>>, "high", 400),
      AnalysisChunkOf("chunk-dep", "dependency",
          <<SecurityFileOf("package.json", "dependency", "high", "Dependencies")>>, "high", 150),
      AnalysisChunkOf("chunk-config", "config",
          <<SecurityFileOf("config.json", "config", "low", "Configuration"),
            SecurityFileOf("settings.yaml", "config", "low", "Configuration")>>, "low", 240),
      AnalysisChunkOf("chunk-deploy", "deployment",
          <<SecurityFileOf("k8s/app.tf", "deployment", "medium", "Deployment")>>, "medium", 100),
      [AnalysisChunkOf("chunk-broken", "security", <<>>, "medium", 100)
          EXCEPT !.filesDefined = FALSE],
      AnalysisChunkOf("chunk-nopath", "secret",
          <<SecurityFileOf(UndefinedPath, "secret", "high", "Environment file"),
            SecurityFileOf(".env", "secret", "high", "Environment file")>>, "high", 400) }

\* ProcessorRun over the sample chunks, evaluated once
ProcessorRunTable == [c \in SampleChunks |-> ProcessorRun(c)]

\* await processor.processChunk(chunk), looked up
processChunk(chunk) ==
    IF chunk \in SampleChunks THEN ProcessorRunTable[chunk] ELSE ProcessorRun(chunk)

ChunkLists == UNION {[1..n -> SampleChunks] : n \in 0..MaxChunks}

\* How a callback slot of the options argument is filled.
SlotKinds == {"omitted", "undefined", "function"}
OptionsArgs == [onProgress : SlotKinds, onChunkComplete : SlotKinds, onError : SlotKinds]

(***************************************************************************)
(* StreamingAnalyzer                                                       *)
(***************************************************************************)
\* constructor: { onProgress: () => {}, ..., ...options }.  The spread copies
\* every own property of options, one whose value is undefined included.
ConstructorOption(opts, slot) ==
    IF opts[slot] = "omitted" THEN "default" ELSE opts[slot]

ConstructorOptions(opts) ==
    [slot \in {"onProgress", "onChunkComplete", "onError"} |-> ConstructorOption(opts, slot)]

\* The ways a call `this.options.slot!(...)` can end: "returned", "threw" (the
\* callback raised) or "notcallable" (the slot holds undefined: TypeError, and
\* nothing was invoked).  A console callback (createConsoleProgressCallback,
\* createConsoleChunkCallback) formats its argument and logs it: it returns.
CallOutcomes(thisOptions, slot) ==
    CASE thisOptions[slot] = "default"   -> {"returned"}
      [] thisOptions[slot] = "undefined" -> {"notcallable"}
      [] thisOptions[slot] = "function"  -> {"returned", "threw"}
      [] thisOptions[slot] = "console"   -> {"returned"}

calculateProgress(currentIndex, totalChunks, findingsSoFar, failedSoFar, currentChunkType) ==
    [currentChunk           |-> currentIndex + 1,
     totalChunks            |-> totalChunks,
     currentChunkType       |-> currentChunkType,
     processedChunks        |-> currentIndex,
     failedChunks           |-> failedSoFar,
     totalFindings          |-> findingsSoFar,
     estimatedTimeRemaining |-> (totalChunks - currentIndex - 1) * 100,
     percentage             |-> RoundPercent(currentIndex + 1, totalChunks)]

generateSummary(totalChunks, processedChunks, failedCount, findingsCount, criticalFindings, highFindings, mediumFindings, lowFindings, totalTokensUsed) ==
    [processedChunks  |-> processedChunks,
     totalChunks      |-> totalChunks,
     successRate      |-> JsRoundPercent(processedChunks, totalChunks),
     totalFindings    |-> findingsCount,
     criticalFindings |-> criticalFindings,
     highFindings     |-> highFindings,
     mediumFindings   |-> mediumFindings,
     lowFindings      |-> lowFindings,
     totalTokensUsed  |-> totalTokensUsed]

RECURSIVE SumOver(_, _)
\* the accumulating loop of aggregateResults for one field
SumOver(results, field) ==
    IF results = <<>> THEN 0
    ELSE (IF field = "tokensUsed" THEN Head(results).tokensUsed
                                  ELSE Head(results).summary[field])
         + SumOver(Tail(results), field)

\* mutant: the high test comes before the critical test
AggregateRiskHighFirst(criticalFindings, highFindings, mediumFindings, lowFindings) ==
    IF highFindings > 0 THEN "high"
    ELSE IF criticalFindings > 0 THEN "critical"
    ELSE IF mediumFindings > 0 THEN "medium"
    ELSE IF lowFindings > 0 THEN "low"
    ELSE "safe"

\* mutant: the risk starts at 'low' instead of 'safe'
AggregateRiskDefaultLow(criticalFindings, highFindings, mediumFindings, lowFindings) ==
    IF criticalFindings > 0 THEN "critical"
    ELSE IF highFindings > 0 THEN "high"
    ELSE IF mediumFindings > 0 THEN "medium"
    ELSE "low"

AggregateRisk(criticalFindings, highFindings, mediumFindings, lowFindings) ==
    IF criticalFindings > 0 THEN "critical"
    ELSE IF highFindings > 0 THEN "high"
    ELSE IF mediumFindings > 0 THEN "medium"
    ELSE IF lowFindings > 0 THEN "low"
    ELSE "safe"

aggregateResults(results, totalChunks, failedCount, findingsCount) ==
    LET criticalFindings == SumOver(results, "criticalFindings")
        highFindings     == SumOver(results, "highFindings")
        mediumFindings   == SumOver(results, "mediumFindings")
        lowFindings      == SumOver(results, "lowFindings")
        infoFindings     == SumOver(results, "infoFindings")
        totalTokensUsed  == SumOver(results, "tokensUsed")
    IN  [totalChunks      |-> totalChunks,
         processedChunks  |-> Len(results),
         failedChunks     |-> failedCount,
         totalFindings    |-> findingsCount,
         criticalFindings |-> criticalFindings,
         highFindings     |-> highFindings,
         mediumFindings   |-> mediumFindings,
         lowFindings      |-> lowFindings,
         infoFindings     |-> infoFindings,
         overallRisk      |-> AggregateRisk(criticalFindings, highFindings, mediumFindings, lowFindings),
         chunkResults     |-> results,
         totalTokensUsed  |-> totalTokensUsed,
         summary          |-> generateSummary(totalChunks, Len(results), failedCount, findingsCount,
                                 criticalFindings, highFindings, mediumFindings, lowFindings,
                                 totalTokensUsed)]

NoVerdict == [totalChunks |-> -1]

thisOptions == ConstructorOptions(options)

\* one entry of the trace of callback invocations; index is the loop index
CallEvent(slot, index, outcome, payload) ==
    [slot |-> slot, index |-> index, outcome |-> outcome, payload |-> payload]

(***************************************************************************)
(* processChunks, one step at a time.                                      *)
(***************************************************************************)
\* the results object of collectTargetedSecurityData before any step
NoGithubData == [targeted_files |-> <<>>, findings |-> <<>>]

\* no value was returned
NoOutput == [kind |-> "none"]

\* no exported function of githubSecurityClient is running
ClientIdle ==
    /\ entry = "none"
    /\ analysisArg = "secrets"
    /\ apc = "off"
    /\ connection = "none"
    /\ githubData = NoGithubData
    /\ aiIndex = 0
    /\ chunkAIResults = <<>>
    /\ engineReplies = <<>>
    /\ output = NoOutput

\* no chunkByType call is in progress
ChunkerIdle ==
    /\ chunkerFiles = <<>>
    /\ cpc = "off"
    /\ filesByType = <<>>
    /\ typeIndex = 0
    /\ chunkerChunks = <<>>

\* no SecurityFileFilter call is part of a processChunks run
FilterIdle ==
    /\ filePaths = <<>>
    /\ filterOptions = DefaultFilterOptions
    /\ fpc = "off"
    /\ classified = [input |-> "", result |-> NullFile]
    /\ selected = <<>>

Init ==
    /\ chunks \in ChunkLists
    /\ options \in OptionsArgs
    /\ pc = "idle"
    /\ i = 0
    /\ chunkResults = <<>>
    /\ totalFindings = 0
    /\ failedChunks = 0
    /\ lastResult = NoResult
    /\ caught = "none"
    /\ resultOrigin = <<>>
    /\ events = <<>>
    /\ verdict = NoVerdict
    /\ FilterIdle
    /\ ChunkerIdle
    /\ ClientIdle

\* lines 60-65: the call enters processChunks and initialises its locals
Start ==
    /\ pc = "idle"
    /\ chunkResults' = <<>>
    /\ totalFindings' = 0
    /\ failedChunks' = 0
    /\ i' = 0
    /\ pc' = "loop"
    /\ UNCHANGED <<chunks, options, lastResult, caught, resultOrigin, events, verdict, filterVars, chunkerVars, clientVars>>

\* lines 68-77: loop test, calculateProgress, this.options.onProgress!(progress)
EmitProgress ==
    /\ pc = "loop"
    /\ i < Len(chunks)
    /\ LET chunk    == chunks[i + 1]
           progress == calculateProgress(i, Len(chunks), totalFindings, failedChunks, chunk.type)
       IN  \E outcome \in CallOutcomes(thisOptions, "onProgress") :
              /\ events' = IF outcome = "notcallable" THEN events
                           ELSE Append(events, CallEvent("onProgress", i, outcome, progress))
              /\ pc' = IF outcome = "returned" THEN "process" ELSE "catch"
              /\ caught' = CASE outcome = "returned"    -> caught
                             [] outcome = "threw"       -> "CallbackError"
                             [] outcome = "notcallable" -> "TypeError"
    /\ UNCHANGED <<chunks, options, i, chunkResults, totalFindings, failedChunks,
                   lastResult, resultOrigin, verdict, filterVars, chunkerVars, clientVars>>

\* mutant: the result is put in front of chunkResults (unshift for push)
ProcessChunkUnshift ==
    /\ pc = "process"
    /\ \E r \in {processChunk(chunks[i + 1])} :
           /\ pc' = IF r.threw THEN "catch" ELSE "complete"
           /\ caught' = IF r.threw THEN "ProcessorError" ELSE caught
           /\ totalFindings' = IF r.threw THEN totalFindings
                               ELSE totalFindings + Len(r.result.findings)
           /\ chunkResults' = IF r.threw THEN chunkResults ELSE <<r.result>> \o chunkResults
           /\ resultOrigin' = IF r.threw THEN resultOrigin ELSE <<i>> \o resultOrigin
           /\ lastResult' = IF r.threw THEN lastResult ELSE r.result
    /\ UNCHANGED <<chunks, options, i, failedChunks, events, verdict, filterVars, chunkerVars, clientVars>>

\* lines 80-85: await processor.processChunk(chunk), then update the totals
ProcessChunk ==
    /\ pc = "process"
    /\ \E r \in {processChunk(chunks[i + 1])} :
           /\ pc' = IF r.threw THEN "catch" ELSE "complete"
           /\ caught' = IF r.threw THEN "ProcessorError" ELSE caught
           /\ totalFindings' = IF r.threw THEN totalFindings
                               ELSE totalFindings + Len(r.result.findings)
           /\ chunkResults' = IF r.threw THEN chunkResults ELSE Append(chunkResults, r.result)
           /\ resultOrigin' = IF r.threw THEN resultOrigin ELSE Append(resultOrigin, i)
           /\ lastResult' = IF r.threw THEN lastResult ELSE r.result
    /\ UNCHANGED <<chunks, options, i, failedChunks, events, verdict, filterVars, chunkerVars, clientVars>>

\* mutant: the completion callback is not invoked
NotifyCompleteSkipped ==
    /\ pc = "complete"
    /\ pc' = "loop"
    /\ i' = i + 1
    /\ UNCHANGED <<chunks, options, chunkResults, totalFindings, failedChunks, events,
                   lastResult, caught, resultOrigin, verdict, filterVars, chunkerVars, clientVars>>

\* lines 88-90: this.options.onChunkComplete!(result), end of the try block
NotifyComplete ==
    /\ pc = "complete"
    /\ \E outcome \in CallOutcomes(thisOptions, "onChunkComplete") :
          /\ events' = IF outcome = "notcallable" THEN events
                       ELSE Append(events, CallEvent("onChunkComplete", i, outcome, lastResult))
          /\ pc' = IF outcome = "returned" THEN "loop" ELSE "catch"
          /\ i' = IF outcome = "returned" THEN i + 1 ELSE i
          /\ caught' = CASE outcome = "returned"    -> caught
                         [] outcome = "threw"       -> "CallbackError"
                         [] outcome = "notcallable" -> "TypeError"
    /\ UNCHANGED <<chunks, options, chunkResults, totalFindings, failedChunks,
                   lastResult, resultOrigin, verdict, filterVars, chunkerVars, clientVars>>

\* mutant: the catch clause rethrows after notifying
HandleErrorRethrow ==
    /\ pc = "catch"
    /\ failedChunks' = failedChunks + 1
    /\ \E outcome \in CallOutcomes(thisOptions, "onError") :
          /\ events' = IF outcome = "notcallable" THEN events
                       ELSE Append(events, CallEvent("onError", i, outcome,
                                      [error |-> caught, chunkId |-> chunks[i + 1].id]))
          /\ pc' = "rejected"
          /\ i' = i
    /\ UNCHANGED <<chunks, options, chunkResults, totalFindings, lastResult, caught,
                   resultOrigin, verdict, filterVars, chunkerVars, clientVars>>

\* lines 92-96: the catch clause: failedChunks++, this.options.onError!(error, chunk).
\* An error raised here is outside every try block: processChunks rejects.
HandleError ==
    /\ pc = "catch"
    /\ failedChunks' = failedChunks + 1
    /\ \E outcome \in CallOutcomes(thisOptions, "onError") :
          /\ events' = IF outcome = "notcallable" THEN events
                       ELSE Append(events, CallEvent("onError", i, outcome,
                                      [error |-> caught, chunkId |-> chunks[i + 1].id]))
          /\ pc' = IF outcome = "returned" THEN "loop" ELSE "rejected"
          /\ i' = IF outcome = "returned" THEN i + 1 ELSE i
    /\ UNCHANGED <<chunks, options, chunkResults, totalFindings, lastResult, caught,
                   resultOrigin, verdict, filterVars, chunkerVars, clientVars>>

\* lines 99-110: the loop is over: aggregateResults and return
Finish ==
    /\ pc = "loop"
    /\ i >= Len(chunks)
    /\ verdict' = aggregateResults(chunkResults, Len(chunks), failedChunks, totalFindings)
    /\ pc' = "completed"
    /\ UNCHANGED <<chunks, options, i, chunkResults, totalFindings, failedChunks,
                   lastResult, caught, resultOrigin, events, filterVars, chunkerVars, clientVars>>

Next ==
    \/ Start
    \/ EmitProgress
    \/ ProcessChunk
    \/ NotifyComplete
    \/ HandleError
    \/ Finish

Spec == Init /\ [][Next]_vars

(***************************************************************************)
(* SecurityFileFilter calls: isSecurityRelevant(path) and                  *)
(* filterFiles(paths, options) applied to bounded inputs.                  *)
(***************************************************************************)
\* the file list of the filterFiles tests, the two script and style files left out
ScenarioPaths == <<".env", "secrets.json", "package.json", "config.json", "README.md">>

PathLists == UNION {[1..n -> SamplePaths] : n \in 0..MaxPaths} \cup {ScenarioPaths}

IncludeFlags == {"unset", "true", "false"}

\* every way to allow or forbid the five categories, the five rows of
\* getAnalysisFilters, the options of the test-suite, limits up to MaxPaths,
\* and the default (no option given)
SamplePolicies ==
    {FilterOptionsOf(c, d, s, y, p, NoLimit) :
        c \in {"unset", "false"}, d \in {"unset", "false"}, s \in {"true", "false"},
        y \in {"unset", "false"}, p \in {"unset", "false"}}
    \cup {getAnalysisFilters(t) :
            t \in {"secrets", "vulnerabilities", "dependencies", "code-patterns", "default"}}
    \cup {FilterOptionsOf("false", "false", "true", "unset", "unset", NoLimit)}
    \cup {FilterOptionsOf("unset", "unset", "unset", "unset", "unset", Limit(m)) : m \in 0..MaxPaths}
    \cup {DefaultFilterOptions}

\* no processChunks run is part of a SecurityFileFilter call
StreamIdle ==
    /\ chunks = <<>>
    /\ options = [onProgress |-> "omitted", onChunkComplete |-> "omitted", onError |-> "omitted"]
    /\ pc = "off"
    /\ i = 0
    /\ chunkResults = <<>>
    /\ totalFindings = 0
    /\ failedChunks = 0
    /\ lastResult = NoResult
    /\ caught = "none"
    /\ resultOrigin = <<>>
    /\ events = <<>>
    /\ verdict = NoVerdict

InitFilter ==
    /\ filePaths \in PathLists
    /\ filterOptions \in SamplePolicies
    /\ fpc = "ready"
    /\ classified = [input |-> "", result |-> NullFile]
    /\ selected = <<>>
    /\ StreamIdle
    /\ ChunkerIdle
    /\ ClientIdle

\* SecurityFileFilter.isSecurityRelevant(path): the options argument left out
Classify ==
    /\ fpc = "ready"
    /\ \E k \in 1..Len(filePaths) :
          classified' = [input  |-> filePaths[k],
                         result |-> isSecurityRelevant(filePaths[k], DefaultFilterOptions)]
    /\ fpc' = "classified"
    /\ UNCHANGED <<filePaths, filterOptions, selected, streamVars, chunkerVars, clientVars>>

\* SecurityFileFilter.filterFiles(filePaths, filterOptions)
Filter ==
    /\ fpc = "ready"
    /\ selected' = filterFiles(filePaths, filterOptions)
    /\ fpc' = "filtered"
    /\ UNCHANGED <<filePaths, filterOptions, classified, streamVars, chunkerVars, clientVars>>

NextFilter ==
    \/ Classify
    \/ Filter

SpecFilter == InitFilter /\ [][NextFilter]_vars

(***************************************************************************)
(* AnalysisChunker                                                         *)
(***************************************************************************)
MaxFiles == 3
MaxTick == 1

\* SecurityFile values of the chunker tests, and a security and a
\* deployment file
SampleFiles ==
    { SecurityFileOf(".env", "secret", "high", "Environment file"),
      SecurityFileOf("secrets.json", "secret", "high", "Secrets file"),
      SecurityFileOf("package.json", "dependency", "high", "Dependencies"),
      SecurityFileOf("config.json", "config", "low", "Configuration"),
      SecurityFileOf("config.json", "config", "medium", "Configuration"),
      SecurityFileOf("settings.json", "config", "low", "Settings"),
      SecurityFileOf("auth.json", "security", "medium", "Security"),
      SecurityFileOf("Dockerfile", "deployment", "medium", "Deployment") }

\* lists of one file repeated, long enough for the estimate to meet its cap
CapSizes == {20, 27, 34, 41}
CapFiles ==
    { SecurityFileOf(".env", "secret", "high", "Environment file"),
      SecurityFileOf("package.json", "dependency", "high", "Dependencies"),
      SecurityFileOf("config.json", "config", "low", "Configuration"),
      SecurityFileOf("Dockerfile", "deployment", "medium", "Deployment") }
CapFileLists == {[k \in 1..n |-> f] : n \in CapSizes, f \in CapFiles}

FileLists == UNION {[1..n -> SampleFiles] : n \in 0..MaxFiles} \cup CapFileLists

\* values Date.now() may return, in milliseconds after the call started
ClockReadings == 0..MaxTick

\* mutant: every file opens a group of its own (no has() test)
PushFileNewGroup(entries, file) ==
    Append(entries, [type |-> file.type, files |-> <<file>>])

\* lines 22-25: one pass of the grouping loop on the Map entries
PushFile(entries, file) ==
    IF \E k \in 1..Len(entries) : entries[k].type = file.type
    THEN [k \in 1..Len(entries) |->
             IF entries[k].type = file.type
             THEN [entries[k] EXCEPT !.files = Append(@, file)]
             ELSE entries[k]]
    ELSE Append(entries, [type |-> file.type, files |-> <<file>>])

RECURSIVE GroupByType(_, _)
\* lines 21-26: the Map after the first n files
GroupByType(files, n) ==
    IF n = 0 THEN <<>> ELSE PushFile(GroupByType(files, n - 1), files[n])

\* mutant: the priority of the first file of the chunk
getChunkPriorityFirstFile(files) ==
    IF files = <<>> THEN "low" ELSE files[1].priority

getChunkPriority(files) ==
    LET priorities == {files[k].priority : k \in 1..Len(files)}
    IN  IF "high" \in priorities THEN "high"
        ELSE IF "medium" \in priorities THEN "medium"
        ELSE "low"

\* mutant: the estimate is not capped
estimateTokensUncapped(files) ==
    LET baseTokens == Len(files) * 100
        type == IF files = <<>> THEN "undefined" ELSE files[1].type
    IN  CASE type = "secret"     -> baseTokens * 2
          [] type = "dependency" -> (baseTokens * 3) \div 2
          [] type = "config"     -> (baseTokens * 6) \div 5
          [] OTHER               -> baseTokens

\* baseTokens is a multiple of 100, so the products by 1.5 and 1.2 are the
\* integers (baseTokens * 3) / 2 and (baseTokens * 6) / 5; the double
\* product by 1.2 is that integer for every file count below the cap.
estimateTokens(files) ==
    LET baseTokens == Len(files) * 100
        type == IF files = <<>> THEN "undefined" ELSE files[1].type
        scaled == CASE type = "secret"     -> baseTokens * 2
                    [] type = "dependency" -> (baseTokens * 3) \div 2
                    [] type = "config"     -> (baseTokens * 6) \div 5
                    [] OTHER               -> baseTokens
    IN  IF scaled < 4000 THEN scaled ELSE 4000

\* no processChunks run and no SecurityFileFilter call is part of a
\* chunkByType call
OthersIdle ==
    /\ StreamIdle
    /\ filePaths = <<>>
    /\ filterOptions = DefaultFilterOptions
    /\ fpc = "off"
    /\ classified = [input |-> "", result |-> NullFile]
    /\ selected = <<>>

InitChunker ==
    /\ chunkerFiles \in FileLists
    /\ cpc = "group"
    /\ filesByType = <<>>
    /\ typeIndex = 0
    /\ chunkerChunks = <<>>
    /\ OthersIdle
    /\ ClientIdle

\* lines 17-26: the locals and the grouping loop
GroupFiles ==
    /\ cpc = "group"
    /\ filesByType' = GroupByType(chunkerFiles, Len(chunkerFiles))
    /\ typeIndex' = 0
    /\ chunkerChunks' = <<>>
    /\ cpc' = "create"
    /\ UNCHANGED <<chunkerFiles, streamVars, filterVars, clientVars>>

\* mutant: the id is built from the clock reading alone
CreateChunkIdFromClock ==
    /\ cpc = "create"
    /\ typeIndex < Len(filesByType)
    /\ LET type  == filesByType[typeIndex + 1].type
           files == filesByType[typeIndex + 1].files
       IN  IF Len(files) = 0
           THEN UNCHANGED chunkerChunks
           ELSE \E now \in ClockReadings :
                   chunkerChunks' =
                      Append(chunkerChunks,
                             AnalysisChunkOf("chunk-" \o ToString(now),
                                             type, files, getChunkPriority(files),
                                             estimateTokens(files)))
    /\ typeIndex' = typeIndex + 1
    /\ UNCHANGED <<chunkerFiles, cpc, filesByType, streamVars, filterVars, clientVars>>

\* lines 29-42: one pass of the loop over the Map entries; Date.now() is read
\* while the id is built
CreateChunk ==
    /\ cpc = "create"
    /\ typeIndex < Len(filesByType)
    /\ LET type  == filesByType[typeIndex + 1].type
           files == filesByType[typeIndex + 1].files
       IN  IF Len(files) = 0
           THEN UNCHANGED chunkerChunks
           ELSE \E now \in ClockReadings :
                   chunkerChunks' =
                      Append(chunkerChunks,
                             AnalysisChunkOf("chunk-" \o type \o "-" \o ToString(now),
                                             type, files, getChunkPriority(files),
                                             estimateTokens(files)))
    /\ typeIndex' = typeIndex + 1
    /\ UNCHANGED <<chunkerFiles, cpc, filesByType, streamVars, filterVars, clientVars>>

\* line 44: return chunks
ReturnChunks ==
    /\ cpc = "create"
    /\ typeIndex >= Len(filesByType)
    /\ cpc' = "returned"
    /\ UNCHANGED <<chunkerFiles, filesByType, typeIndex, chunkerChunks, streamVars, filterVars, clientVars>>

NextChunker ==
    \/ GroupFiles
    \/ CreateChunk
    \/ ReturnChunks

SpecChunker == InitChunker /\ [][NextChunker]_vars

(***************************************************************************)
(* The selection handed to the chunker: results.targeted_files is the      *)
(* value of filterFiles, and analyzeSecurityWithAIChunked passes it to     *)
(* chunkByType.                                                            *)
(***************************************************************************)
\* githubSecurityClient.ts lines 154-155 and 426-435: the filtered list becomes
\* the argument of chunker.chunkByType
ChunkSelected ==
    /\ fpc = "filtered"
    /\ cpc = "off"
    /\ chunkerFiles' = selected
    /\ cpc' = "group"
    /\ fpc' = "handed"
    /\ UNCHANGED <<filePaths, filterOptions, classified, selected, filesByType, typeIndex,
                   chunkerChunks, streamVars, clientVars>>

NextSelection ==
    \/ Filter
    \/ ChunkSelected
    \/ GroupFiles
    \/ CreateChunk
    \/ ReturnChunks

SpecSelection == InitFilter /\ [][NextSelection]_vars

(***************************************************************************)
(* githubSecurityClient: callGitHubTool, analyzeRepositorySecurity and     *)
(* analyzeSecurityWithAIChunked, one call at a time.                       *)
(***************************************************************************)
MaxTargeted == 2

AnalysisTypes == {"secrets", "vulnerabilities", "dependencies", "code-patterns"}

\* files of a githubData.targeted_files argument; one of them has no path
TargetedSamples ==
    { SecurityFileOf(".env", "secret", "high", "Environment file"),
      SecurityFileOf(UndefinedPath, "secret", "high", "Environment file"),
      SecurityFileOf("package.json", "dependency", "high", "Dependencies"),
      SecurityFileOf("config.json", "config", "low", "Configuration") }

TargetedFileLists == UNION {[1..n -> TargetedSamples] : n \in 0..MaxTargeted}

\* What a search tool call ends with: a rejection, a result without an items
\* property, or a result whose items carry these paths.
SearchReplies ==
    { [failed |-> TRUE,  hasItems |-> FALSE, paths |-> <<>>],
      [failed |-> FALSE, hasItems |-> FALSE, paths |-> <<>>],
      [failed |-> FALSE, hasItems |-> TRUE,  paths |-> <<"README.md">>],
      [failed |-> FALSE, hasItems |-> TRUE,  paths |-> <<"config.json", "package.json", ".env">>] }

\* a reply text that is a JSON document with one finding
FindingsDocument == "{\"critical_findings\":[{\"severity\":\"High\"}]}"

\* What chat.completions.create ends with: a message content (a JSON document,
\* the empty content, or prose) or a rejection (transport error, timeout).
EngineReplies ==
    { [kind |-> "content", content |-> FindingsDocument],
      [kind |-> "content", content |-> ""],
      [kind |-> "content", content |-> "I cannot analyse this repository."],
      [kind |-> "error",   content |-> "Request timed out."] }

\* JSON.parse on the reply texts of the model: the two documents parse, any
\* other text raises a SyntaxError
JsonParse(text) ==
    CASE text = "{}"              -> [ok |-> TRUE,  critical_findings |-> <<>>]
      [] text = FindingsDocument  -> [ok |-> TRUE,  critical_findings |-> <<[severity |-> "High"]>>]
      [] OTHER                    -> [ok |-> FALSE, critical_findings |-> <<>>]

\* the value of the ai_analysis property: a parsed document, the parse-error
\* object, or the error text of the outer catch clause
Analysis(kind, error, raw_response, critical_findings) ==
    [kind |-> kind, error |-> error, raw_response |-> raw_response,
     critical_findings |-> critical_findings]

\* the object analyzeSecurityWithAI returns
AIResult(analysis) == [ai_analysis |-> analysis, model_used |-> "gemini-2.0-flash"]

\* mutant: a SyntaxError of JSON.parse reaches the outer catch clause
analyzeSecurityWithAIParseUncaught(reply) ==
    IF reply.kind = "error"
    THEN [threw |-> FALSE,
          value |-> AIResult(Analysis("error_text",
                       "Error performing AI analysis: " \o reply.content, "", <<>>))]
    ELSE LET aiResponse == IF reply.content = "" THEN "{}" ELSE reply.content
             parsed     == JsonParse(aiResponse)
         IN  [threw |-> FALSE,
              value |-> AIResult(IF parsed.ok
                                 THEN Analysis("parsed", "", "", parsed.critical_findings)
                                 ELSE Analysis("error_text",
                                         "Error performing AI analysis: Unexpected token",
                                         "", <<>>))]

\* analyzeSecurityWithAI (lines 370-412) on the engine's reply.  threw says
\* whether the promise rejects; no path of the try / catch leads there.
analyzeSecurityWithAI(reply) ==
    IF reply.kind = "error"
    THEN [threw |-> FALSE,
          value |-> AIResult(Analysis("error_text",
                       "Error performing AI analysis: " \o reply.content, "", <<>>))]
    ELSE LET aiResponse == IF reply.content = "" THEN "{}" ELSE reply.content
             parsed     == JsonParse(aiResponse)
         IN  [threw |-> FALSE,
              value |-> AIResult(IF parsed.ok
                                 THEN Analysis("parsed", "", "", parsed.critical_findings)
                                 ELSE Analysis("parse_error", "Failed to parse AI response",
                                               aiResponse, <<>>))]

\* the entry the catch clause of the per-chunk loop pushes (lines 493-502)
LoopErrorResult ==
    [ai_analysis |-> Analysis("absent", "AI analysis failed", "", <<>>), model_used |-> "none"]

\* aggregatedResults.chunkResults[index]: undefined (NoResult) past the end
StatsAt(results, index) ==
    IF index + 1 <= Len(results) THEN results[index + 1] ELSE NoResult

RECURSIVE AllFindings(_, _)
\* lines 542-553: the critical_findings of the first n chunk results, in order
AllFindings(results, n) ==
    IF n = 0 THEN <<>>
    ELSE AllFindings(results, n - 1)
         \o (IF results[n].ai_analysis.ai_analysis.kind = "absent" THEN <<>>
             ELSE results[n].ai_analysis.ai_analysis.critical_findings)

\* aggregateChunkAIResults (lines 530-610): the overall risk, the number of
\* findings and the number of chunk results
aggregateChunkAIResults(results) ==
    LET allFindings == AllFindings(results, Len(results))
        Some(sev)   == \E f \in 1..Len(allFindings) : allFindings[f].severity = sev
    IN  [overall_risk |-> IF Some("Critical") THEN "Critical"
                          ELSE IF Some("High") THEN "High"
                          ELSE IF Some("Medium") THEN "Medium"
                          ELSE "Low",
         findings     |-> Len(allFindings),
         categories   |-> Len(results)]

\* the chunked_analysis property of a result of the basic analysis
NoChunkedAnalysis ==
    [total_chunks |-> 0, processed_chunks |-> 0, failed_chunks |-> 0, chunk_results |-> <<>>]

\* the type of the entry a failed search step leaves in findings
SearchErrorType(type) ==
    CASE type = "secrets"         -> "SECRET_SEARCH_ERROR"
      [] type = "vulnerabilities" -> "VULNERABILITY_SEARCH_ERROR"
      [] type = "dependencies"    -> "DEPENDENCY_SEARCH_ERROR"
      [] type = "code-patterns"   -> "CODE_PATTERNS_ERROR"

\* the types of the entries a search step that succeeded leaves in findings
SearchResultTypes(type) ==
    CASE type = "secrets"         -> <<"TARGETED_SECRET_SEARCH">>
      [] type = "vulnerabilities" -> <<"SECURITY_ISSUES", "TARGETED_DEPENDENCY_SEARCH">>
      [] type = "dependencies"    -> <<"TARGETED_DEPENDENCY_SEARCH">>
      [] type = "code-patterns"   -> <<"TARGETED_CODE_PATTERNS">>

ClientEntries == {"callGitHubTool", "analyzeRepositorySecurity"}

InitClient ==
    /\ \/ /\ entry = "callGitHubTool"
          /\ analysisArg = "secrets"
          /\ githubData = NoGithubData
          /\ apc = "call"
       \/ /\ entry = "analyzeRepositorySecurity"
          /\ analysisArg \in AnalysisTypes
          /\ githubData = NoGithubData
          /\ apc = "call"
       \/ /\ entry = "analyzeSecurityWithAIChunked"
          /\ analysisArg = "secrets"
          /\ githubData \in [targeted_files : TargetedFileLists, findings : {<<>>}]
          /\ apc = "analysis"
    /\ connection = "none"
    /\ aiIndex = 0
    /\ chunkAIResults = <<>>
    /\ engineReplies = <<>>
    /\ output = NoOutput
    /\ StreamIdle
    /\ FilterIdle
    /\ ChunkerIdle

\* client.connect() (lines 28-48).  this.transport and this.client are assigned
\* before this.client.connect(transport) is awaited: when that call rejects the
\* client object stays assigned; when createSmitheryUrl or a constructor raises,
\* nothing was assigned.  The catch clause rethrows and so does the caller's.
Connect ==
    /\ apc = "call"
    /\ entry \in ClientEntries
    /\ \E outcome \in {"connected", "rejected", "raised"} :
          /\ connection' = CASE outcome = "connected" -> "open"
                             [] outcome = "rejected"  -> "assigned"
                             [] outcome = "raised"    -> "none"
          /\ apc' = IF outcome = "connected" THEN "connected" ELSE "raised"
    /\ UNCHANGED <<entry, analysisArg, githubData, aiIndex, chunkAIResults, engineReplies,
                   output, streamVars, filterVars, chunkerVars>>

\* callGitHubTool line 289: client.callTool(toolName, parameters); a rejection
\* goes to the catch clause (292-295), which rethrows
CallTool ==
    /\ apc = "connected"
    /\ entry = "callGitHubTool"
    /\ \E outcome \in {"result", "rejected"} :
          apc' = IF outcome = "result" THEN "called" ELSE "raised"
    /\ UNCHANGED <<entry, analysisArg, connection, githubData, aiIndex, chunkAIResults,
                   engineReplies, output, streamVars, filterVars, chunkerVars>>

\* collectTargetedSecurityData lines 129-134: get_repository, outside the inner
\* try blocks: a rejection is rethrown by lines 271-274 and 644-647
GetRepository ==
    /\ apc = "connected"
    /\ entry = "analyzeRepositorySecurity"
    /\ \E outcome \in {"result", "rejected"} :
          /\ apc' = IF outcome = "result" THEN "search" ELSE "raised"
          /\ githubData' = IF outcome = "result"
                           THEN [githubData EXCEPT !.findings = Append(@, "REPOSITORY_DETAILS")]
                           ELSE githubData
    /\ UNCHANGED <<entry, analysisArg, connection, aiIndex, chunkAIResults, engineReplies,
                   output, streamVars, filterVars, chunkerVars>>

\* mutant: a failed search step is rethrown
TargetedSearchRethrows ==
    /\ apc = "search"
    /\ \E issuesFailed \in (IF analysisArg = "vulnerabilities" THEN BOOLEAN ELSE {FALSE}) :
       \E reply \in SearchReplies :
          IF issuesFailed \/ reply.failed
          THEN /\ githubData' = [githubData EXCEPT
                                    !.findings = Append(@, SearchErrorType(analysisArg))]
               /\ apc' = "raised"
          ELSE /\ githubData' =
                     [targeted_files |-> IF reply.hasItems
                                         THEN filterFiles(reply.paths, getAnalysisFilters(analysisArg))
                                         ELSE githubData.targeted_files,
                      findings       |-> githubData.findings \o SearchResultTypes(analysisArg)]
               /\ apc' = "collected"
    /\ UNCHANGED <<entry, analysisArg, connection, aiIndex, chunkAIResults, engineReplies,
                   output, streamVars, filterVars, chunkerVars>>

\* collectTargetedSecurityData lines 137-270: the switch on analysisType.  Each
\* case awaits its search calls inside a try block (search_issues first for
\* vulnerabilities), filters the item paths when the result has items, and
\* pushes its entries; the catch clause pushes the error entry instead.
TargetedSearch ==
    /\ apc = "search"
    /\ \E issuesFailed \in (IF analysisArg = "vulnerabilities" THEN BOOLEAN ELSE {FALSE}) :
       \E reply \in SearchReplies :
          IF issuesFailed \/ reply.failed
          THEN /\ githubData' = [githubData EXCEPT
                                    !.findings = Append(@, SearchErrorType(analysisArg))]
               /\ apc' = "collected"
          ELSE /\ githubData' =
                     [targeted_files |-> IF reply.hasItems
                                         THEN filterFiles(reply.paths, getAnalysisFilters(analysisArg))
                                         ELSE githubData.targeted_files,
                      findings       |-> githubData.findings \o SearchResultTypes(analysisArg)]
               /\ apc' = "collected"
    /\ UNCHANGED <<entry, analysisArg, connection, aiIndex, chunkAIResults, engineReplies,
                   output, streamVars, filterVars, chunkerVars>>

\* client.disconnect() (lines 50-56) at line 290 / 630; callGitHubTool then
\* returns the tool result (line 291)
Disconnect ==
    /\ apc \in {"called", "collected"}
    /\ connection' = "none"
    /\ apc' = IF entry = "callGitHubTool" THEN "returned" ELSE "analysis"
    /\ output' = IF entry = "callGitHubTool"
                 THEN [kind |-> "tool", ai_analysis |-> LoopErrorResult.ai_analysis,
                       chunked_analysis |-> NoChunkedAnalysis]
                 ELSE output
    /\ UNCHANGED <<entry, analysisArg, githubData, aiIndex, chunkAIResults, engineReplies,
                   streamVars, filterVars, chunkerVars>>

\* analyzeSecurityWithAIChunked lines 423-435: without targeted files the basic
\* analysis is the result (analyzeRepositorySecurity wraps it, lines 634-643);
\* otherwise chunker.chunkByType(targetedFiles) is called
EnterChunked ==
    /\ apc = "analysis"
    /\ IF Len(githubData.targeted_files) = 0
       THEN \E reply \in EngineReplies :
               \E r \in {analyzeSecurityWithAI(reply)} :
                  /\ engineReplies' = Append(engineReplies, reply)
                  /\ output' = IF r.threw THEN output
                               ELSE [kind |-> "basic", ai_analysis |-> r.value.ai_analysis,
                                     chunked_analysis |-> NoChunkedAnalysis]
                  /\ apc' = IF r.threw THEN "raised" ELSE "returned"
                  /\ UNCHANGED <<chunkerFiles, cpc>>
       ELSE /\ chunkerFiles' = githubData.targeted_files
            /\ cpc' = "group"
            /\ apc' = "chunking"
            /\ UNCHANGED <<engineReplies, output>>
    /\ UNCHANGED <<entry, analysisArg, connection, githubData, aiIndex, chunkAIResults,
                   filesByType, typeIndex, chunkerChunks, streamVars, filterVars>>

\* lines 437-451: chunkByType has returned; the StreamingAnalyzer is built with
\* the two console callbacks and no onError, and processChunks(chunks) is called
StartStreaming ==
    /\ apc = "chunking"
    /\ cpc = "returned"
    /\ Len(chunkerChunks) > 0
    /\ chunks' = chunkerChunks
    /\ options' = [onProgress |-> "console", onChunkComplete |-> "console", onError |-> "omitted"]
    /\ pc' = "idle"
    /\ apc' = "streaming"
    /\ UNCHANGED <<i, chunkResults, totalFindings, failedChunks, lastResult, caught,
                   resultOrigin, events, verdict, entry, analysisArg, connection, githubData,
                   aiIndex, chunkAIResults, engineReplies, output, filterVars, chunkerVars>>

\* lines 459-503: one pass of the per-chunk loop: analyzeSecurityWithAI on the
\* chunk's data, then the push of the entry (481-487), or the catch clause
AnalyzeChunkWithAI ==
    /\ apc = "streaming"
    /\ pc = "completed"
    /\ aiIndex < Len(chunks)
    /\ \E reply \in EngineReplies :
          \E r \in {analyzeSecurityWithAI(reply)} :
             /\ engineReplies' = Append(engineReplies, reply)
             /\ chunkAIResults' =
                   Append(chunkAIResults,
                          [chunk_id         |-> chunks[aiIndex + 1].id,
                           chunk_type       |-> chunks[aiIndex + 1].type,
                           chunk_priority   |-> chunks[aiIndex + 1].priority,
                           ai_analysis      |-> IF r.threw THEN LoopErrorResult ELSE r.value,
                           processing_stats |-> StatsAt(verdict.chunkResults, aiIndex)])
    /\ aiIndex' = aiIndex + 1
    /\ UNCHANGED <<entry, analysisArg, apc, connection, githubData, output,
                   streamVars, filterVars, chunkerVars>>

\* lines 505-524: the loop is over: aggregateChunkAIResults and return
ReturnChunked ==
    /\ apc = "streaming"
    /\ pc = "completed"
    /\ aiIndex >= Len(chunks)
    /\ output' = [kind |-> "chunked",
                  ai_analysis |-> aggregateChunkAIResults(chunkAIResults),
                  chunked_analysis |->
                     [total_chunks     |-> Len(chunks),
                      processed_chunks |-> verdict.processedChunks,
                      failed_chunks    |-> verdict.failedChunks,
                      chunk_results    |-> chunkAIResults]]
    /\ apc' = "returned"
    /\ UNCHANGED <<entry, analysisArg, connection, githubData, aiIndex, chunkAIResults,
                   engineReplies, streamVars, filterVars, chunkerVars>>

NextClient ==
    \/ Connect
    \/ CallTool
    \/ GetRepository
    \/ TargetedSearch
    \/ Disconnect
    \/ EnterChunked
    \/ GroupFiles
    \/ CreateChunk
    \/ ReturnChunks
    \/ StartStreaming
    \/ Start
    \/ EmitProgress
    \/ ProcessChunk
    \/ NotifyComplete
    \/ HandleError
    \/ Finish
    \/ AnalyzeChunkWithAI
    \/ ReturnChunked

SpecClient == InitClient /\ [][NextClient]_vars

(***************************************************************************)
(* Vocabulary of the properties of a run.                                  *)
(***************************************************************************)
Slots == {"onProgress", "onChunkComplete", "onError"}

\* every callback slot is omitted or holds a function, and every callback
\* invoked so far has returned normally
CallbacksReturn ==
    /\ \A slot \in Slots : options[slot] # "undefined"
    /\ \A e \in 1..Len(events) : events[e].outcome = "returned"

\* positions in the trace of the invocations of slot for loop index k
EventsOf(slot, k) ==
    {e \in 1..Len(events) : events[e].slot = slot /\ events[e].index = k}

\* positions of chunkResults pushed by loop index k
ResultsOf(k) == {r \in 1..Len(resultOrigin) : resultOrigin[r] = k}

\* the Unit Processor's outcome on the chunk at loop index k
Outcome(k) == processChunk(chunks[k + 1])

\* loop indices below n whose chunk the processor fails on / succeeds on
FailedBelow(n) == {k \in 0..(n - 1) : Outcome(k).threw}
SucceededBelow(n) == {k \in 0..(n - 1) : ~Outcome(k).threw}

RECURSIVE FindingsBelow(_)
\* findings of the chunks below n the processor succeeds on
FindingsBelow(n) ==
    IF n = 0 THEN 0
    ELSE FindingsBelow(n - 1)
         + (IF Outcome(n - 1).threw THEN 0 ELSE Len(Outcome(n - 1).result.findings))

\* an upper bound on the steps a run still takes: every step lowers it
StepsLeft ==
    CASE pc = "idle"     -> 4 * Len(chunks) + 2
      [] pc = "loop"     -> 4 * (Len(chunks) - i) + 1
      [] pc = "process"  -> 4 * (Len(chunks) - i)
      [] pc = "complete" -> 4 * (Len(chunks) - i) - 1
      [] pc = "catch"    -> 4 * (Len(chunks) - i) - 2
      [] OTHER           -> 0

(***************************************************************************)
(* C1: with callbacks that return, every run of processChunks ends in the  *)
(* Completed state with an AggregatedVerdict for the whole chunk list,     *)
(* whatever chunks the Unit Processor fails on (all of them included); no  *)
(* chunk failure makes processChunks reject.  Termination: the run is     *)
(* never stuck before it settles and every step lowers StepsLeft.          *)
(***************************************************************************)
C1_RunCompletes ==
    /\ [](CallbacksReturn => pc # "rejected")
    /\ [](pc = "completed" => verdict # NoVerdict /\ verdict.totalChunks = Len(chunks))
    /\ [](pc \notin {"completed", "rejected"} => ENABLED Next)
    /\ [](StepsLeft >= 0)
    /\ [][StepsLeft' < StepsLeft]_vars

C1_AllChunksFailedCompleted ==
    /\ pc = "completed"
    /\ CallbacksReturn
    /\ Len(chunks) >= 2
    /\ \A k \in 0..(Len(chunks) - 1) : Outcome(k).threw
    /\ verdict.failedChunks = Len(chunks)

(***************************************************************************)
(* C2: with callbacks that return, every chunk whose iteration has ended   *)
(* has exactly one recorded outcome.  Success: its ChunkResult was pushed  *)
(* once, onChunkComplete was invoked once with that result and onError not *)
(* at all.  Processor failure: onError was invoked once with the           *)
(* processor's error and that chunk, onChunkComplete not at all, nothing   *)
(* was pushed.  Between iterations failedChunks counts the failed chunks   *)
(* and totalFindings the findings of the successful ones.                  *)
(***************************************************************************)
C2_ExactlyOneOutcome ==
    CallbacksReturn =>
       /\ \A k \in 0..(i - 1) :
             IF Outcome(k).threw
             THEN /\ Cardinality(EventsOf("onError", k)) = 1
                  /\ \A e \in EventsOf("onError", k) :
                        events[e].payload = [error |-> "ProcessorError", chunkId |-> chunks[k + 1].id]
                  /\ EventsOf("onChunkComplete", k) = {}
                  /\ ResultsOf(k) = {}
             ELSE /\ Cardinality(EventsOf("onChunkComplete", k)) = 1
                  /\ \A e \in EventsOf("onChunkComplete", k) :
                        events[e].payload = Outcome(k).result
                  /\ EventsOf("onError", k) = {}
                  /\ Cardinality(ResultsOf(k)) = 1
                  /\ \A r \in ResultsOf(k) : chunkResults[r] = Outcome(k).result
       /\ pc \in {"loop", "completed"} =>
             /\ failedChunks = Cardinality(FailedBelow(i))
             /\ totalFindings = FindingsBelow(i)
             /\ Len(chunkResults) = Cardinality(SucceededBelow(i))

C2_MixedOutcomesRecorded ==
    /\ pc = "completed"
    /\ CallbacksReturn
    /\ FailedBelow(i) # {}
    /\ SucceededBelow(i) # {}
    /\ totalFindings >= 2

(***************************************************************************)
(* C3: chunks are handled one at a time, in input order.  The trace of     *)
(* callback invocations never goes back to an earlier chunk; when the loop *)
(* is at index i every earlier iteration has ended with its completion or  *)
(* error callback returning, and nothing of a later chunk has happened;    *)
(* chunkResults holds the results of processed chunks in input order.      *)
(***************************************************************************)
C3_SequentialInOrder ==
    /\ \A e, f \in 1..Len(events) : e < f => events[e].index <= events[f].index
    /\ \A e \in 1..Len(events) : events[e].index <= i
    /\ i <= Len(chunks)
    /\ \A k \in 0..(i - 1) :
          \E e \in 1..Len(events) :
             /\ events[e].index = k
             /\ events[e].slot \in {"onChunkComplete", "onError"}
             /\ events[e].outcome = "returned"
    /\ Len(resultOrigin) = Len(chunkResults)
    /\ \A r, q \in 1..Len(resultOrigin) : r < q => resultOrigin[r] < resultOrigin[q]
    /\ \A r \in 1..Len(resultOrigin) :
          /\ resultOrigin[r] <= i
          /\ chunkResults[r] = Outcome(resultOrigin[r]).result
    /\ pc = "completed" => verdict.chunkResults = chunkResults

C3_TwoResultsInOrder ==
    /\ pc = "completed"
    /\ Len(verdict.chunkResults) >= 2
    /\ chunks[1].id # chunks[2].id
    /\ verdict.chunkResults[1].chunkId = chunks[1].id
    /\ verdict.chunkResults[2].chunkId = chunks[2].id

\* number of findings of severity sev over the chunk results rs
SeverityTotal(rs, sev) ==
    Cardinality({p \in UNION {{<<r, f>> : f \in 1..Len(rs[r].findings)} : r \in 1..Len(rs)} :
                    rs[p[1]].findings[p[2]].severity = sev})

(***************************************************************************)
(* C4: in the verdict every severity count is the sum of that count over   *)
(* the summaries of the chunk results (which is the number of findings of  *)
(* that severity in them), and overallRisk is the worst severity present:  *)
(* critical, else high, else medium, else low, else safe.  One critical    *)
(* finding makes the verdict critical; the chunks <<.env secret,           *)
(* package.json dependency>> give high = 1, medium = 1 and risk high.      *)
(***************************************************************************)
C4_SeverityRollUp ==
    pc = "completed" =>
       LET rs == verdict.chunkResults
       IN  /\ verdict.criticalFindings = SeverityTotal(rs, "critical")
           /\ verdict.highFindings = SeverityTotal(rs, "high")
           /\ verdict.mediumFindings = SeverityTotal(rs, "medium")
           /\ verdict.lowFindings = SeverityTotal(rs, "low")
           /\ verdict.infoFindings = SeverityTotal(rs, "info")
           /\ \A r \in 1..Len(rs) :
                 /\ rs[r].summary.criticalFindings = SeverityTotal(<<rs[r]>>, "critical")
                 /\ rs[r].summary.highFindings = SeverityTotal(<<rs[r]>>, "high")
                 /\ rs[r].summary.mediumFindings = SeverityTotal(<<rs[r]>>, "medium")
                 /\ rs[r].summary.lowFindings = SeverityTotal(<<rs[r]>>, "low")
           /\ verdict.overallRisk =
                 (IF verdict.criticalFindings > 0 THEN "critical"
                  ELSE IF verdict.highFindings > 0 THEN "high"
                  ELSE IF verdict.mediumFindings > 0 THEN "medium"
                  ELSE IF verdict.lowFindings > 0 THEN "low"
                  ELSE "safe")
           /\ (\E r \in 1..Len(rs) : \E f \in 1..Len(rs[r].findings) :
                  rs[r].findings[f].severity = "critical") => verdict.overallRisk = "critical"
           /\ (/\ Len(chunks) = 2
               /\ chunks[1].id = "chunk-env"
               /\ chunks[2].id = "chunk-dep"
               /\ CallbacksReturn)
              => /\ verdict.highFindings = 1
                 /\ verdict.mediumFindings = 1
                 /\ verdict.criticalFindings = 0
                 /\ verdict.lowFindings = 0
                 /\ verdict.overallRisk = "high"

C4_CriticalAmongOthers ==
    /\ pc = "completed"
    /\ verdict.criticalFindings > 0
    /\ verdict.highFindings + verdict.mediumFindings + verdict.lowFindings > 0
    /\ verdict.overallRisk = "critical"

(***************************************************************************)
(* C5: a run over the empty chunk list invokes no callback, never rejects  *)
(* and completes with every count of the verdict zero, no chunk results    *)
(* and overallRisk safe.                                                   *)
(***************************************************************************)
C5_EmptyRun ==
    chunks = <<>> =>
       /\ events = <<>>
       /\ pc \in {"idle", "loop", "completed"}
       /\ pc = "completed" =>
             /\ verdict.totalChunks = 0
             /\ verdict.processedChunks = 0
             /\ verdict.failedChunks = 0
             /\ verdict.totalFindings = 0
             /\ verdict.criticalFindings = 0
             /\ verdict.highFindings = 0
             /\ verdict.mediumFindings = 0
             /\ verdict.lowFindings = 0
             /\ verdict.infoFindings = 0
             /\ verdict.totalTokensUsed = 0
             /\ verdict.chunkResults = <<>>
             /\ verdict.overallRisk = "safe"

C5_EmptyRunCompleted ==
    /\ chunks = <<>>
    /\ pc = "completed"
    /\ verdict.totalChunks = 0

\* p is Math.round(num / den * 100): the integer nearest to the quotient, half up
IsRoundedPercent(p, num, den) ==
    /\ 2 * den * p <= 200 * num + den
    /\ 200 * num + den < 2 * den * (p + 1)

(***************************************************************************)
(* C6: with callbacks that return, exactly one progress notification is    *)
(* emitted before the chunk at index k of N is processed, carrying         *)
(* currentChunk = k+1, totalChunks = N, processedChunks = the number of    *)
(* earlier chunks processed successfully, failedChunks = the number of     *)
(* earlier chunks that failed, totalFindings = the findings of the earlier *)
(* successful chunks and percentage = round((k+1)/N*100); the percentages  *)
(* never decrease and the last one of a run is 100.                        *)
(***************************************************************************)
C6_ProgressContents ==
    CallbacksReturn =>
       /\ \A k \in 0..(Len(chunks) - 1) :
             Cardinality(EventsOf("onProgress", k)) =
                (IF k < i \/ (k = i /\ pc \in {"process", "complete", "catch"}) THEN 1 ELSE 0)
       /\ \A e \in 1..Len(events) :
             events[e].slot = "onProgress" =>
                LET k == events[e].index
                    progress == events[e].payload
                IN  /\ progress.currentChunk = k + 1
                    /\ progress.totalChunks = Len(chunks)
                    /\ progress.processedChunks = Cardinality(SucceededBelow(k))
                    /\ progress.failedChunks = Cardinality(FailedBelow(k))
                    /\ progress.totalFindings = FindingsBelow(k)
                    /\ IsRoundedPercent(progress.percentage, k + 1, Len(chunks))
       /\ \A e, f \in 1..Len(events) :
             (e < f /\ events[e].slot = "onProgress" /\ events[f].slot = "onProgress")
                => events[e].payload.percentage <= events[f].payload.percentage
       /\ (pc = "completed" /\ Len(chunks) > 0) =>
             \E e \in EventsOf("onProgress", Len(chunks) - 1) : events[e].payload.percentage = 100

(***************************************************************************)
(* C7: the summary of every verdict reports a success rate that is a       *)
(* number between 0 and 100, equal to round(processedChunks / totalChunks  *)
(* * 100), a run over zero chunks and a run whose chunks all failed        *)
(* included; a run whose chunks all succeed reports 100.                   *)
(***************************************************************************)
C7_SuccessRateDefined ==
    pc = "completed" =>
       LET rate == verdict.summary.successRate
       IN  /\ rate.kind = "number"
           /\ rate.value \in 0..100
           /\ verdict.totalChunks > 0 =>
                 IsRoundedPercent(rate.value, verdict.processedChunks, verdict.totalChunks)
           /\ verdict.processedChunks = verdict.totalChunks => rate.value = 100

(***************************************************************************)
(* C8: an unset callback slot, omitted or passed as undefined, is a no-op: *)
(* no TypeError is raised for it, the run does not reject, no chunk is     *)
(* counted as failed because of it, and the counts are those of the run    *)
(* with all three callbacks supplied (the chunks the processor fails on    *)
(* are the failed ones, the others the processed ones).                    *)
(***************************************************************************)
C8_UnsetCallbackIsNoOp ==
    (\A e \in 1..Len(events) : events[e].outcome = "returned") =>
       /\ caught # "TypeError"
       /\ pc # "rejected"
       /\ pc \in {"loop", "completed"} =>
             /\ failedChunks = Cardinality(FailedBelow(i))
             /\ Len(chunkResults) = Cardinality(SucceededBelow(i))
             /\ totalFindings = FindingsBelow(i)

\* position of a category in the fixed precedence order of the classifier
PrecedenceRank(category) ==
    CASE category = "secret"     -> 1
      [] category = "dependency" -> 2
      [] category = "security"   -> 3
      [] category = "deployment" -> 4
      [] category = "config"     -> 5

\* the categories whose matching rule the path satisfies
MatchingCategories(path) == {c \in Categories : IsMatch(c, path)}

(***************************************************************************)
(* C9: isSecurityRelevant(path) with every category enabled returns null   *)
(* exactly when no category's rule matches the path; otherwise it returns  *)
(* one classified file, for that path, whose category is the one of        *)
(* highest precedence (secret, dependency, security, deployment, config)   *)
(* among the categories whose rule matches.  'auth.config' and a           *)
(* dependency manifest under a directory named after a secret keyword      *)
(* ('auth/package.json') match several rules and come out as secret.       *)
(***************************************************************************)
C9_FirstMatchingCategory ==
    fpc = "classified" =>
       LET path    == classified.input
           result  == classified.result
           matches == MatchingCategories(path)
       IN  /\ (result = NullFile) <=> (matches = {})
           /\ result # NullFile =>
                 /\ result.path = path
                 /\ result.type \in matches
                 /\ \A c \in matches : PrecedenceRank(result.type) <= PrecedenceRank(c)
                 /\ result.reason # ""
           /\ path \in {"auth.config", "auth/package.json"} =>
                 /\ Cardinality(matches) >= 2
                 /\ result.type = "secret"

C9_ManifestUnderSecretDirectory ==
    /\ fpc = "classified"
    /\ classified.input = "auth/package.json"
    /\ {"secret", "dependency"} \subseteq MatchingCategories(classified.input)
    /\ classified.result.type = "secret"

\* the include flag of the options that governs a category
FlagOf(opts, category) ==
    CASE category = "secret"     -> opts.includeSecretFiles
      [] category = "dependency" -> opts.includeDependencyFiles
      [] category = "security"   -> opts.includeSecurityFiles
      [] category = "deployment" -> opts.includeDeploymentFiles
      [] category = "config"     -> opts.includeConfigFiles

(***************************************************************************)
(* C10: no entry returned by filterFiles has a category whose include flag *)
(* the options set to false; when secret is the only category not set to   *)
(* false every returned entry is a secret file.                            *)
(***************************************************************************)
C10_NoDisabledCategory ==
    fpc = "filtered" =>
       /\ \A k \in 1..Len(selected) :
             /\ selected[k].type \in Categories
             /\ FlagOf(filterOptions, selected[k].type) # "false"
       /\ (\A c \in Categories \ {"secret"} : FlagOf(filterOptions, c) = "false")
             => \A k \in 1..Len(selected) : selected[k].type = "secret"

C10_DisabledCategoryDropped ==
    /\ fpc = "filtered"
    /\ \E c \in Categories : FlagOf(filterOptions, c) = "false"
    /\ \E k \in 1..Len(filePaths) :
          /\ isSecurityRelevant(filePaths[k], DefaultFilterOptions) # NullFile
          /\ FlagOf(filterOptions, isSecurityRelevant(filePaths[k], DefaultFilterOptions).type) = "false"
    /\ Len(selected) >= 1

\* number of positions of the sequence s that hold x
Occurrences(s, x) == Cardinality({k \in 1..Len(s) : s[k] = x})

RECURSIVE ClassifiedThenFiltered(_, _, _)
\* classify(path) with every category considered, for the first n paths, the
\* non-matches and the files of a category the policy sets to false dropped
ClassifiedThenFiltered(paths, n, opts) ==
    IF n = 0 THEN <<>>
    ELSE LET file == isSecurityRelevant(paths[n], DefaultFilterOptions)
         IN  ClassifiedThenFiltered(paths, n - 1, opts)
             \o (IF file = NullFile \/ FlagOf(opts, file.type) = "false" THEN <<>> ELSE <<file>>)

\* the policy does not shorten the list of a call on these paths
NoTruncation(paths, opts) ==
    ~opts.maxFiles.defined \/ Len(paths) <= opts.maxFiles.value

(***************************************************************************)
(* C11: when no truncation applies, filterFiles(paths, policy) holds       *)
(* exactly the files classify gives with every category considered whose   *)
(* category the policy does not disable, each with the category and        *)
(* priority of classify; a path whose category is disabled is dropped and  *)
(* not given to a later category.                                          *)
(***************************************************************************)
C11_ClassifyThenFilter ==
    (fpc = "filtered" /\ NoTruncation(filePaths, filterOptions)) =>
       LET expected == ClassifiedThenFiltered(filePaths, Len(filePaths), filterOptions)
       IN  /\ Len(selected) = Len(expected)
           /\ \A k \in 1..Len(expected) :
                 Occurrences(selected, expected[k]) = Occurrences(expected, expected[k])

(***************************************************************************)
(* C12: with maxFiles set to m >= 0, filterFiles returns the first         *)
(* min(m, n) entries of the sorted list of the n surviving files: never    *)
(* more than m entries, and the empty list when m = 0.                     *)
(***************************************************************************)
C12_TruncatesToMaxFiles ==
    (fpc = "filtered" /\ filterOptions.maxFiles.defined) =>
       LET m      == filterOptions.maxFiles.value
           sorted == filterFiles(filePaths, [filterOptions EXCEPT !.maxFiles = NoLimit])
           n      == Len(sorted)
       IN  /\ Len(selected) <= m
           /\ selected = SubSeq(sorted, 1, IF m < n THEN m ELSE n)
           /\ m = 0 => selected = <<>>

\* the sort keys as the specification gives them
PriorityScore(priority) ==
    CASE priority = "high" -> 3 [] priority = "medium" -> 2 [] priority = "low" -> 1

CategoryRank(category) ==
    CASE category = "secret"     -> 5
      [] category = "dependency" -> 4
      [] category = "security"   -> 3
      [] category = "deployment" -> 2
      [] category = "config"     -> 1

\* the entries of files that have this priority and this category, in order
TieClass(files, priority, category) ==
    SelectSeq(files, LAMBDA f : f.priority = priority /\ f.type = category)

IsPrefix(s, t) ==
    /\ Len(s) <= Len(t)
    /\ SubSeq(t, 1, Len(s)) = s

(***************************************************************************)
(* C13: the list filterFiles returns is ordered by priority descending     *)
(* and, among equal priorities, by category rank descending; the entries   *)
(* that tie on both keys are in the order their paths have in the input.   *)
(***************************************************************************)
C13_SortedStable ==
    fpc = "filtered" =>
       /\ \A k, l \in 1..Len(selected) :
             k < l =>
                \/ PriorityScore(selected[k].priority) > PriorityScore(selected[l].priority)
                \/ /\ PriorityScore(selected[k].priority) = PriorityScore(selected[l].priority)
                   /\ CategoryRank(selected[k].type) >= CategoryRank(selected[l].type)
       /\ \A p \in {"high", "medium", "low"}, c \in Categories :
             IsPrefix(TieClass(selected, p, c),
                      TieClass(ClassifyAll(filePaths, Len(filePaths), filterOptions), p, c))

C13_TiesKeepInputOrder ==
    /\ fpc = "filtered"
    /\ Len(filePaths) = 2
    /\ Len(selected) = 2
    /\ selected[1].path = "secrets.json"
    /\ selected[2].path = ".env"
    /\ selected[1].priority = selected[2].priority
    /\ selected[1].type = selected[2].type
    /\ filePaths = <<"secrets.json", ".env">>

\* the priority the specification assigns to a category and a path
PriorityOf(category, path) ==
    CASE category = "secret"     -> "high"
      [] category = "dependency" -> IF Includes(path, "/") THEN "low" ELSE "high"
      [] category = "config"     -> IF Includes(path, ".env") THEN "high" ELSE "low"
      [] category = "security"   -> "medium"
      [] category = "deployment" -> "medium"

\* path, category and priority of every entry of a list of classified files
Digest(files) == [k \in 1..Len(files) |-> <<files[k].path, files[k].type, files[k].priority>>]

Intents == {"secrets", "vulnerabilities", "dependencies", "code-patterns", "default"}

RowCategories(intent) ==
    CASE intent = "secrets"         -> {"secret", "config"}
      [] intent = "vulnerabilities" -> {"security", "dependency"}
      [] intent = "dependencies"    -> {"dependency"}
      [] intent = "code-patterns"   -> {"security", "config"}
      [] OTHER                      -> Categories

RowMaxFiles(intent) ==
    CASE intent = "secrets"         -> 20
      [] intent = "vulnerabilities" -> 15
      [] intent = "dependencies"    -> 10
      [] intent = "code-patterns"   -> 25
      [] OTHER                      -> 30

(***************************************************************************)
(* C15: getAnalysisFilters(intent) carries the limit of the intent's row   *)
(* and enables exactly the categories the row names: filterFiles under     *)
(* the policy of an intent returns no file of a category the row does not  *)
(* name.                                                                   *)
(***************************************************************************)
C15_IntentPolicyTable ==
    \A intent \in Intents :
       /\ getAnalysisFilters(intent).maxFiles = Limit(RowMaxFiles(intent))
       /\ (fpc = "filtered" /\ filterOptions = getAnalysisFilters(intent)) =>
             /\ {c \in Categories : shouldIncludeCategory(c, filterOptions)} = RowCategories(intent)
             /\ \A k \in 1..Len(selected) : selected[k].type \in RowCategories(intent)

RECURSIVE FilesInChunks(_, _, _)
\* number of positions of the files lists of the first n chunks that hold file
FilesInChunks(cs, n, file) ==
    IF n = 0 THEN 0
    ELSE FilesInChunks(cs, n - 1, file) + Occurrences(cs[n].files, file)

(***************************************************************************)
(* C16: chunkByType returns a partition of its input by category: every    *)
(* input file is in exactly one chunk, as often as in the input; the files *)
(* of a chunk are the input files of the chunk's category in input order;  *)
(* no two chunks share a category; the categories of the chunks are those  *)
(* of the input; the empty input gives no chunk.                           *)
(***************************************************************************)
C16_PartitionByCategory ==
    cpc = "returned" =>
       /\ \A k \in 1..Len(chunkerChunks) :
             /\ chunkerChunks[k].files # <<>>
             /\ chunkerChunks[k].files =
                   SelectSeq(chunkerFiles, LAMBDA f : f.type = chunkerChunks[k].type)
       /\ \A k, l \in 1..Len(chunkerChunks) :
             k # l => chunkerChunks[k].type # chunkerChunks[l].type
       /\ {chunkerChunks[k].type : k \in 1..Len(chunkerChunks)}
             = {chunkerFiles[k].type : k \in 1..Len(chunkerFiles)}
       /\ \A k \in 1..Len(chunkerFiles) :
             FilesInChunks(chunkerChunks, Len(chunkerChunks), chunkerFiles[k])
                = Occurrences(chunkerFiles, chunkerFiles[k])
       /\ chunkerFiles = <<>> => chunkerChunks = <<>>

C16_InterleavedInputPartitioned ==
    /\ cpc = "returned"
    /\ Len(chunkerFiles) = 3
    /\ chunkerFiles[1].type = chunkerFiles[3].type
    /\ chunkerFiles[1].type # chunkerFiles[2].type
    /\ chunkerFiles[1] # chunkerFiles[3]
    /\ Len(chunkerChunks) = 2
    /\ chunkerChunks[1].files = <<chunkerFiles[1], chunkerFiles[3]>>

(***************************************************************************)
(* C17: the priority of every chunk is the highest priority among its own  *)
(* member files under high > medium > low.                                 *)
(***************************************************************************)
C17_ChunkPriorityIsHighest ==
    cpc = "returned" =>
       \A k \in 1..Len(chunkerChunks) :
          LET members == {chunkerChunks[k].files[m].priority :
                             m \in 1..Len(chunkerChunks[k].files)}
          IN  /\ chunkerChunks[k].priority \in members
              /\ \A p \in members :
                    PriorityScore(p) <= PriorityScore(chunkerChunks[k].priority)

C17_MediumAfterLowMember ==
    /\ cpc = "returned"
    /\ \E k \in 1..Len(chunkerChunks) :
          /\ chunkerChunks[k].priority = "medium"
          /\ chunkerChunks[k].files[1].priority = "low"
    /\ \E m \in 1..Len(chunkerFiles) : chunkerFiles[m].priority = "high"

\* ten times the multiplier of a category
TenfoldMultiplier(category) ==
    CASE category = "secret"     -> 20
      [] category = "dependency" -> 15
      [] category = "config"     -> 12
      [] OTHER                   -> 10

(***************************************************************************)
(* C18: the estimate of a chunk of n files is min(n * 100 * m, 4000) with  *)
(* m = 2 for secret, 1.5 for dependency, 1.2 for config and 1 otherwise;   *)
(* it is positive, at most 4000, and one more file never lowers it.        *)
(***************************************************************************)
C18_CostEstimate ==
    cpc = "returned" =>
       \A k \in 1..Len(chunkerChunks) :
          LET chunk   == chunkerChunks[k]
              tenfold == Len(chunk.files) * 100 * TenfoldMultiplier(chunk.type)
          IN  /\ 10 * chunk.estimatedTokens = (IF tenfold < 40000 THEN tenfold ELSE 40000)
              /\ chunk.estimatedTokens > 0
              /\ chunk.estimatedTokens <= 4000
              /\ chunk.estimatedTokens <= estimateTokens(Append(chunk.files, chunk.files[1]))

C18_EstimateCapped ==
    /\ cpc = "returned"
    /\ \E k \in 1..Len(chunkerChunks) :
          /\ Len(chunkerChunks[k].files) * 100 * TenfoldMultiplier(chunkerChunks[k].type) > 40000
          /\ chunkerChunks[k].estimatedTokens = 4000

(***************************************************************************)
(* C19: the ids of the chunks of one chunkByType call are pairwise         *)
(* distinct whatever Date.now() returns, the same value for every chunk    *)
(* included.                                                               *)
(***************************************************************************)
C19_ChunkIdsDistinct ==
    \A k, l \in 1..Len(chunkerChunks) :
       k # l => chunkerChunks[k].id # chunkerChunks[l].id

C19_SameTickDistinctIds ==
    /\ cpc = "returned"
    /\ Len(chunkerChunks) >= 2
    /\ \E now \in ClockReadings :
          \A k \in 1..Len(chunkerChunks) :
             chunkerChunks[k].id = "chunk-" \o chunkerChunks[k].type \o "-" \o ToString(now)

\* the paths the secret heuristics react to
IsEnvironmentFile(path) == Includes(path, ".env")
IsKnownSecretsFile(path) == Includes(path, "secrets.json") \/ Includes(path, "credentials.json")

RECURSIVE SecretSeverities(_)
\* path and severity of the findings expected for a list of secret files
SecretSeverities(files) ==
    IF files = <<>> THEN <<>>
    ELSE (IF IsEnvironmentFile(Head(files).path) THEN << <<Head(files).path, "high">> >> ELSE <<>>)
         \o (IF IsKnownSecretsFile(Head(files).path)
             THEN << <<Head(files).path, "critical">> >> ELSE <<>>)
         \o SecretSeverities(Tail(files))

(***************************************************************************)
(* C20: the result of a secret chunk lists, file by file in file order, a  *)
(* finding of severity high with a recommendation for an environment file  *)
(* and a finding of severity critical for a known secrets file; a run over *)
(* the single secret chunk <<secrets.json>> has one finding, critical, and *)
(* overallRisk critical.                                                   *)
(***************************************************************************)
C20_SecretChunkFindings ==
    /\ \A r \in 1..Len(chunkResults) :
          chunkResults[r].chunkType = "secret" =>
             LET findings == chunkResults[r].findings
             IN  /\ [f \in 1..Len(findings) |-> <<findings[f].filePath, findings[f].severity>>]
                       = SecretSeverities(chunks[resultOrigin[r] + 1].files)
                 /\ \A f \in 1..Len(findings) : findings[f].recommendation # ""
    /\ (pc = "completed" /\ Len(chunks) = 1 /\ chunks[1].id = "chunk-secrets") =>
          /\ Len(verdict.chunkResults) = 1 =>
                /\ Len(verdict.chunkResults[1].findings) = 1
                /\ verdict.chunkResults[1].findings[1].severity = "critical"
                /\ verdict.overallRisk = "critical"
          /\ CallbacksReturn => Len(verdict.chunkResults) = 1

C20_SecretsJsonRunCritical ==
    /\ pc = "completed"
    /\ Len(chunks) = 1
    /\ chunks[1].id = "chunk-secrets"
    /\ verdict.criticalFindings = 1
    /\ verdict.totalFindings = 1
    /\ verdict.overallRisk = "critical"

\* some finding of the list has the severity
HasSeverity(findings, sev) == \E f \in 1..Len(findings) : findings[f].severity = sev

(***************************************************************************)
(* C21: the summary of every ChunkResult the processor returns has         *)
(* overallRisk critical when a finding is critical, otherwise high when a  *)
(* finding is high, otherwise medium, otherwise low, and safe otherwise;   *)
(* overallRisk is safe exactly when the result has no finding.             *)
(***************************************************************************)
C21_ChunkRiskIsWorstSeverity ==
    \A r \in 1..Len(chunkResults) :
       LET findings == chunkResults[r].findings
           risk     == chunkResults[r].summary.overallRisk
       IN  /\ risk = (IF HasSeverity(findings, "critical") THEN "critical"
                      ELSE IF HasSeverity(findings, "high") THEN "high"
                      ELSE IF HasSeverity(findings, "medium") THEN "medium"
                      ELSE IF HasSeverity(findings, "low") THEN "low"
                      ELSE "safe")
           /\ (risk = "safe") <=> (Len(findings) = 0)

C21_CriticalBesideSafe ==
    /\ Len(chunkResults) = 2
    /\ HasSeverity(chunkResults[1].findings, "critical")
    /\ HasSeverity(chunkResults[1].findings, "high")
    /\ chunkResults[1].summary.overallRisk = "critical"
    /\ chunkResults[2].findings = <<>>
    /\ chunkResults[2].summary.overallRisk = "safe"

(***************************************************************************)
(* C22: processChunk never raises: the processChunk call of the loop ends  *)
(* with a ChunkResult carrying the chunk's id and category, for every      *)
(* chunk; a file whose analysis fails contributes no finding and the       *)
(* other files of the chunk keep theirs.                                   *)
(***************************************************************************)
C22_ProcessorNeverRaises ==
    /\ caught # "ProcessorError"
    /\ \A r \in 1..Len(chunkResults) :
          /\ chunkResults[r].chunkId = chunks[resultOrigin[r] + 1].id
          /\ chunkResults[r].chunkType = chunks[resultOrigin[r] + 1].type
    /\ \A k \in 0..(i - 1) : Cardinality(ResultsOf(k)) = 1

\* every callback slot is omitted or holds a function, one that may raise
CallbacksAreFunctions == \A slot \in Slots : options[slot] # "undefined"

(***************************************************************************)
(* C26: in every verdict returned by processChunks, whatever the processor *)
(* outcomes and whether the callbacks return or raise, processedChunks +   *)
(* failedChunks = totalChunks, processedChunks is the length of            *)
(* chunkResults, and no chunk has both a result and a failure count.       *)
(***************************************************************************)
C26_VerdictCountsAddUp ==
    (pc = "completed" /\ CallbacksAreFunctions) =>
       /\ verdict.processedChunks = Len(verdict.chunkResults)
       /\ verdict.processedChunks + verdict.failedChunks = verdict.totalChunks
       /\ verdict.failedChunks
             <= Cardinality({k \in 0..(Len(chunks) - 1) : ResultsOf(k) = {}})

(***************************************************************************)
(* C27: an exception raised inside onProgress, onChunkComplete or onError  *)
(* never stops the run: processChunks does not reject, it visits every     *)
(* remaining chunk and returns a verdict.                                  *)
(***************************************************************************)
C27_RaisingCallbackNeverStopsRun ==
    CallbacksAreFunctions =>
       /\ pc # "rejected"
       /\ pc = "completed" => (i = Len(chunks) /\ verdict.totalChunks = Len(chunks))

\* position of the first file of the category in the list
FirstOccurrence(files, type) ==
    CHOOSE k \in 1..Len(files) :
       /\ files[k].type = type
       /\ \A j \in 1..(k - 1) : files[j].type # type

(***************************************************************************)
(* C29: the chunks of chunkByType(filterFiles(paths, policy)) appear in    *)
(* the order in which their categories first occur in the sorted file      *)
(* list, and therefore in non-increasing chunk priority.                   *)
(***************************************************************************)
C29_ChunksInPriorityOrder ==
    (fpc = "handed" /\ cpc = "returned") =>
       \A a, b \in 1..Len(chunkerChunks) :
          a < b =>
             /\ FirstOccurrence(selected, chunkerChunks[a].type)
                   < FirstOccurrence(selected, chunkerChunks[b].type)
             /\ PriorityScore(chunkerChunks[a].priority)
                   >= PriorityScore(chunkerChunks[b].priority)

C29_LaterPathLeadsChunks ==
    /\ fpc = "handed"
    /\ cpc = "returned"
    /\ Len(filePaths) = 2
    /\ Len(chunkerChunks) = 2
    /\ chunkerChunks[1].files[1].path = filePaths[2]
    /\ PriorityScore(chunkerChunks[1].priority) > PriorityScore(chunkerChunks[2].priority)

\* the search step of the running analysis failed: its error entry is in findings
SearchFailed ==
    /\ entry = "analyzeRepositorySecurity"
    /\ \E f \in 1..Len(githubData.findings) : githubData.findings[f] = SearchErrorType(analysisArg)

(***************************************************************************)
(* C23: a file-listing (search) call of the targeted data collection that  *)
(* fails is treated as "no files found for this step": the failure is an   *)
(* error entry in findings, the targeted file list stays empty, the        *)
(* collection is not aborted, and the analysis goes on to the analysis     *)
(* stage and returns a result (the basic analysis).                        *)
(***************************************************************************)
C23_SearchFailureIsNoFiles ==
    SearchFailed =>
       /\ githubData.targeted_files = <<>>
       /\ apc \in {"collected", "analysis", "returned"}
       /\ apc = "collected" => ENABLED Disconnect
       /\ apc = "analysis" => ENABLED EnterChunked
       /\ apc = "returned" =>
             /\ output.kind = "basic"
             /\ Len(engineReplies) = 1
             /\ connection = "none"

C23_FailedSearchReturnsResult ==
    /\ SearchFailed
    /\ analysisArg = "secrets"
    /\ githubData.findings = <<"REPOSITORY_DETAILS", "SECRET_SEARCH_ERROR">>
    /\ apc = "returned"
    /\ output.kind = "basic"
    /\ output.ai_analysis.kind = "parsed"

\* positions of the reasoning-engine calls that raised or timed out
RaisedCalls == {k \in 1..Len(engineReplies) : engineReplies[k].kind = "error"}

(***************************************************************************)
(* C24: when the reasoning-engine call for a chunk raises or times out,    *)
(* the chunked analysis still completes with an entry for every chunk, and *)
(* that chunk is recorded as a failed chunk: it is counted in              *)
(* failed_chunks and it was surfaced through onError.                      *)
(***************************************************************************)
C24_EngineFailureIsFailedChunk ==
    (apc = "returned" /\ output.kind = "chunked") =>
       /\ Len(output.chunked_analysis.chunk_results) = output.chunked_analysis.total_chunks
       /\ output.chunked_analysis.failed_chunks >= Cardinality(RaisedCalls)
       /\ \A k \in RaisedCalls : EventsOf("onError", k - 1) # {}

\* the reply is a message content JSON.parse rejects
Unparseable(reply) ==
    /\ reply.kind = "content"
    /\ reply.content \notin {"", "{}", FindingsDocument}

C28_StatsBelongToChunk ==
    (apc = "returned" /\ output.kind = "chunked") =>
       LET chunk_results == output.chunked_analysis.chunk_results
       IN  /\ Len(chunk_results) = Len(chunks)
           /\ \A k \in 1..Len(chunk_results) :
                 /\ chunk_results[k].chunk_id = chunks[k].id
                 /\ IF ResultsOf(k - 1) = {}
                    THEN chunk_results[k].processing_stats = NoResult
                    ELSE chunk_results[k].processing_stats.chunkId = chunk_results[k].chunk_id

(***************************************************************************)
(* C30: every connection callGitHubTool or analyzeRepositorySecurity opens *)
(* with connect() is closed with disconnect() before the function returns  *)
(* or raises, on success and on every error path: the client is not left   *)
(* connected.                                                              *)
(***************************************************************************)
C30_ConnectionClosedAtExit ==
    (entry \in ClientEntries /\ apc \in {"returned", "raised"}) => connection = "none"

====
